---- MODULE Spec2Model ----
(***************************************************************************)
(* Gateway core of stonescriptphp-files: the JWT authentication            *)
(* middlewares (static key and JWKS), the JwksClient key cache, the        *)
(* authorization middleware that consults an external oracle, the          *)
(* middleware stack of createFilesServer with its two rate limiters, and   *)
(* the storage client with the route handlers that call it.                *)
(*                                                                         *)
(* JavaScript values are strings; NoVal stands for undefined/null.  A      *)
(* request path is the sequence of its segments: "/files/f1" is            *)
(* <<"files", "f1">>.                                                      *)
(***************************************************************************)
EXTENDS Integers, Sequences, FiniteSets, TLC

\* State of the authorization middleware.
VARIABLES
    zUrl,       \* authorizationUrl is configured
    zReq,       \* the request being authorized
    zPc,        \* "idle", "fetching", "errjson", "okjson", "done"
    zTimer,     \* the setTimeout of line 61 of this request is pending
    zAborted,   \* controller.abort() was called
    zCall,      \* the outbound oracle call: "none", "inflight", "answered", "failed", "aborted"
    zStatus,    \* HTTP status of the oracle's answer (0: none)
    zBody,      \* body of the oracle's answer
    zSentBody,  \* decision request sent to the oracle
    zOut,       \* what the middleware did: next() or a response
    zNextCalls, \* number of calls of next() for this request
    zSent       \* number of responses sent for this request

authzVars == <<zUrl, zReq, zPc, zTimer, zAborted, zCall, zStatus, zBody,
               zSentBody, zOut, zNextCalls, zSent>>

\* State of the authentication middlewares and of the JwksClient.
VARIABLES
    aConfig,    \* the configuration given to createFilesServer
    aMode,      \* "static": createAuthMiddleware, "jwks": createJwksAuthMiddleware,
                \* "none": the middleware of a server without authentication
    aServers,   \* JwksClient.authServers
    aCache,     \* JwksClient.cache, by issuer key
    now,        \* Date.now(), in ms
    aReq,       \* the request being authenticated: the header's scheme and its token
    aPc,        \* "idle", "fetching", "json", "done"
    aServer,    \* index in aServers of the server selected for this request (0: none)
    aAge,       \* at the cache read of this request: now - fetchedAt (-1: no entry)
    aFetches,   \* key-set fetches issued for this request
    aErr,       \* the error this request ended with ("none" otherwise)
    aOut,       \* what the middleware did: next() or a response
    aUser,      \* req.user
    aNextCalls, \* number of calls of next() for this request
    aSent       \* number of responses sent for this request

authVars == <<aConfig, aMode, aServers, aCache, now, aReq, aPc, aServer, aAge, aFetches,
              aErr, aOut, aUser, aNextCalls, aSent>>

\* State of the assembled server.
VARIABLES
    sAuth,      \* the authentication configured: "static" or "none"
    sUrl,       \* an authorization URL is configured
    sNow,       \* Date.now(), in ms
    sReq,       \* the request in the stack
    sPos,       \* next app.use group to run (0: no request, 7: request finished)
    sUser,      \* req.user.id, NoVal before authentication
    sScope,     \* req.fileScope
    sOut,       \* the response sent, if any
    sCalls,     \* oracle calls made for this request
    sStorage,   \* the storage operation issued for this request
    sSent,      \* the body of the last decision request sent for this request
    sTrace,     \* the stages this request went through, in order
    uploadStore,    \* hit counters of uploadLimiter, by key
    downloadStore,  \* hit counters of downloadLimiter, by key
    sSeen,      \* per class and key: the requests of the class seen in the window
    sExpect     \* whether the class counter admits this request

srvVars == <<sAuth, sUrl, sNow, sReq, sPos, sUser, sScope, sOut, sCalls, sStorage,
             sSent, sTrace, uploadStore, downloadStore, sSeen, sExpect>>

\* State of the storage client and of the route handlers that call it.
VARIABLES
    blobs,        \* the blobs of the container, each with its name and metadata
    isConfigured, \* AzureStorageClient.isConfigured
    fReq,         \* the last call: of a route handler, or of the client directly
    fCall,        \* the storage call it made: arguments, prefix, error thrown, result
    fOut          \* the response of the route handler

fileVars == <<blobs, isConfigured, fReq, fCall, fOut>>

\* State of one JwksClient serving several requests at a time.
VARIABLES
    cCache,     \* JwksClient.cache: the entry of the issuer key of the server
    cNow,       \* Date.now(), in ms
    cPc,        \* per request: "idle", "fetching", "json", "done"
    cKid,       \* per request: the kid of its token
    cRead,      \* per request: what its cache read found: "absent", "stale", "fresh"
    cUsed,      \* per request: the key set of its key lookup, with where it came from
    cFetched,   \* per request: the key-set fetches it issued
    cGot,       \* per request: the key set its own fetch produced ({}: none)
    cKey,       \* per request: the key found for the kid
    cProduced   \* the key sets that successful fetches have produced so far

clientVars == <<cCache, cNow, cPc, cKid, cRead, cUsed, cFetched, cGot, cKey, cProduced>>

vars == <<authzVars, authVars, srvVars, fileVars, clientVars>>

NoVal == "undefined"

\* JavaScript truthiness of a string-valued field.
Truthy(v) == v \notin {NoVal, "", "false"}

\* a || b
Or(a, b) == IF Truthy(a) THEN a ELSE b

(***************************************************************************)
(* Authorization middleware (src/src/authorization.js)                     *)
(***************************************************************************)

Methods == {"GET", "POST", "DELETE"}
\* "/upload/" is <<"upload", "">> and "/files/" is <<"files", "">>.
Paths ==
    {<<"upload">>, <<"files", "f1">>, <<"files">>, <<"health">>, <<"list">>,
     <<"upload", "">>, <<"files", "">>}

\* Requests seen by the middleware: req.params.id is set only when the
\* middleware is mounted on a route with an :id parameter, and the body hints
\* only come with an upload.
AuthzRequests ==
    {r \in [method : Methods, path : Paths, paramsId : {NoVal, "f1"},
            authorization : {NoVal, "Bearer t1"},
            resource_type : {NoVal, "invoice"}, resource_id : {NoVal, "7"}] :
        /\ (r.paramsId # NoVal => r.path = <<"files", "f1">>)
        /\ (r.resource_type # NoVal \/ r.resource_id # NoVal
               => r.path = <<"upload">> /\ r.method = "POST" /\ r.authorization # NoVal)}

NoReq ==
    [method |-> "GET", path |-> <<"health">>, paramsId |-> NoVal,
     authorization |-> NoVal, resource_type |-> NoVal, resource_id |-> NoVal]

\* The decision payload of the oracle; nothing restricts the strings it
\* carries.
Payloads ==
    [allowed : {"true", "false", NoVal}, scope : {"user", "tenant", "team", NoVal},
     reason : {NoVal, "r1"}]

EmptyPayload == [allowed |-> NoVal, scope |-> NoVal, reason |-> NoVal]

\* A parsed response body: top-level fields, and a data field when wrapped.
Flat(p) ==
    [parsable |-> TRUE, wrapped |-> FALSE, data |-> EmptyPayload,
     allowed |-> p.allowed, scope |-> p.scope, reason |-> p.reason, message |-> NoVal]

Wrap(p, top, msg) ==
    [parsable |-> TRUE, wrapped |-> TRUE, data |-> p,
     allowed |-> top, scope |-> NoVal, reason |-> NoVal, message |-> msg]

Unparsable ==
    [parsable |-> FALSE, wrapped |-> FALSE, data |-> EmptyPayload,
     allowed |-> NoVal, scope |-> NoVal, reason |-> NoVal, message |-> NoVal]

Bodies ==
    {Unparsable} \cup {Flat(p) : p \in Payloads}
    \cup {Wrap(p, top, msg) : p \in Payloads, top \in {NoVal, "true"}, msg \in {NoVal, "m1"}}

Statuses == {200, 401, 403, 500}

\* response.ok
ResponseOk(status) == status >= 200 /\ status <= 299

\* req.path.startsWith('/files/')
StartsWithFiles(path) == Len(path) >= 2 /\ path[1] = "files"

\* The path as the routers match it: express.Router() is created with its
\* default options, under which a trailing slash is optional.
StripSlash(path) ==
    IF Len(path) > 1 /\ path[Len(path)] = ""
    THEN SubSeq(path, 1, Len(path) - 1) ELSE path

\* A route of a router matches a path; the second segment of a route, if
\* any, is the parameter :id, which takes a non-empty segment.
RouteMatches(path, route) ==
    LET q == StripSlash(path) IN
    /\ Len(q) = Len(route)
    /\ q[1] = route[1]
    /\ (Len(route) = 2 => q[2] # "")

\* The endpoint of the routers that serves a request, NoVal when none does.
Endpoint(req) ==
    IF req.method = "GET" /\ RouteMatches(req.path, <<"health">>) THEN "health"
    ELSE IF req.method = "POST" /\ RouteMatches(req.path, <<"upload">>) THEN "upload"
    ELSE IF req.method = "GET" /\ RouteMatches(req.path, <<"files", "id">>) THEN "download"
    ELSE IF req.method = "GET" /\ RouteMatches(req.path, <<"files">>) THEN "list"
    ELSE IF req.method = "DELETE" /\ RouteMatches(req.path, <<"files", "id">>) THEN "delete"
    ELSE NoVal

\* Lines 32-43: the action of a request, NoVal for a pass-through.
ActionOf(req) ==
    IF req.method = "POST" /\ req.path = <<"upload">> THEN "upload"
    ELSE IF req.method = "GET" /\ StartsWithFiles(req.path) THEN "download"
    ELSE IF req.method = "DELETE" /\ StartsWithFiles(req.path) THEN "delete"
    ELSE NoVal

\* Lines 46-55: the body of the decision request.
DecisionBody(req) ==
    LET action == ActionOf(req) IN
    [action |-> action,
     file_id |-> IF action \in {"download", "delete"} /\ Truthy(req.paramsId)
                 THEN req.paramsId ELSE NoVal,
     resource_type |-> IF action = "upload" THEN req.resource_type ELSE NoVal,
     resource_id |-> IF action = "upload" THEN req.resource_id ELSE NoVal,
     authorization |-> req.authorization]

NoDecisionBody ==
    [action |-> NoVal, file_id |-> NoVal, resource_type |-> NoVal,
     resource_id |-> NoVal, authorization |-> NoVal]

\* The unwrapping with the top level read first when it carries a decision.
Unwrap_TopLevelFirst(body) ==
    IF body.wrapped /\ ~Truthy(body.allowed) THEN body.data
    ELSE [allowed |-> body.allowed, scope |-> body.scope, reason |-> body.reason]

\* raw.data || raw
Unwrap(body) ==
    IF body.wrapped THEN body.data
    ELSE [allowed |-> body.allowed, scope |-> body.scope, reason |-> body.reason]

NoOut == [kind |-> "none", status |-> 0, message |-> NoVal, scope |-> NoVal]
CallNext(scope) == [kind |-> "next", status |-> 0, message |-> NoVal, scope |-> scope]
Respond(status, message) ==
    [kind |-> "res", status |-> status, message |-> message, scope |-> NoVal]

AuthzInit ==
    /\ zUrl \in BOOLEAN
    /\ zReq = NoReq
    /\ zPc = "idle"
    /\ zTimer = FALSE
    /\ zAborted = FALSE
    /\ zCall = "none"
    /\ zStatus = 0
    /\ zBody = Unparsable
    /\ zSentBody = NoDecisionBody
    /\ zOut = NoOut
    /\ zNextCalls = 0
    /\ zSent = 0

\* The pass-through middleware without the scope.
AuthorizeBypass_NoScope(req) ==
    /\ ~zUrl
    /\ zPc \in {"idle", "done"}
    /\ zReq' = req
    /\ zPc' = "done"
    /\ zOut' = CallNext(NoVal)
    /\ zNextCalls' = 1
    /\ zSent' = 0
    /\ zCall' = "none"
    /\ zStatus' = 0
    /\ zBody' = Unparsable
    /\ zSentBody' = NoDecisionBody
    /\ UNCHANGED <<zUrl, zTimer, zAborted>>
    /\ UNCHANGED <<authVars, srvVars, fileVars, clientVars>>

\* Lines 19-25: no authorization URL, the pass-through middleware.
AuthorizeBypass(req) ==
    /\ ~zUrl
    /\ zPc \in {"idle", "done"}
    /\ zReq' = req
    /\ zPc' = "done"
    /\ zOut' = CallNext("user")
    /\ zNextCalls' = 1
    /\ zSent' = 0
    /\ zCall' = "none"
    /\ zStatus' = 0
    /\ zBody' = Unparsable
    /\ zSentBody' = NoDecisionBody
    /\ UNCHANGED <<zUrl, zTimer, zAborted>>
    /\ UNCHANGED <<authVars, srvVars, fileVars, clientVars>>

\* Lines 29-43: a request that is not a file action passes through.
AuthorizePassThrough(req) ==
    /\ zUrl
    /\ zPc \in {"idle", "done"}
    /\ ActionOf(req) = NoVal
    /\ zReq' = req
    /\ zPc' = "done"
    /\ zOut' = CallNext("user")
    /\ zNextCalls' = 1
    /\ zSent' = 0
    /\ zCall' = "none"
    /\ zStatus' = 0
    /\ zBody' = Unparsable
    /\ zSentBody' = NoDecisionBody
    /\ zAborted' = FALSE
    /\ zTimer' = FALSE
    /\ UNCHANGED zUrl
    /\ UNCHANGED <<authVars, srvVars, fileVars, clientVars>>

\* Lines 45-71: build the decision request, arm the timer, call the oracle.
AuthorizeStart(req) ==
    /\ zUrl
    /\ zPc \in {"idle", "done"}
    /\ ActionOf(req) # NoVal
    /\ zReq' = req
    /\ zPc' = "fetching"
    /\ zSentBody' = DecisionBody(req)
    /\ zTimer' = TRUE
    /\ zAborted' = FALSE
    /\ zCall' = "inflight"
    /\ zStatus' = 0
    /\ zBody' = Unparsable
    /\ zOut' = NoOut
    /\ zNextCalls' = 0
    /\ zSent' = 0
    /\ UNCHANGED zUrl
    /\ UNCHANGED <<authVars, srvVars, fileVars, clientVars>>

\* Lines 63-75: the oracle answers (response headers); the timer is cleared.
OracleResponds(status) ==
    /\ zPc = "fetching"
    /\ zCall = "inflight"
    /\ zStatus' = status
    /\ zCall' = "answered"
    /\ zTimer' = FALSE
    /\ zPc' = IF ResponseOk(status) THEN "okjson" ELSE "errjson"
    /\ UNCHANGED <<zUrl, zReq, zAborted, zBody, zSentBody, zOut, zNextCalls, zSent>>
    /\ UNCHANGED <<authVars, srvVars, fileVars, clientVars>>

\* Lines 63, 110-122: the call fails in transport; the timer stays armed.
OracleFails ==
    /\ zPc = "fetching"
    /\ zCall = "inflight"
    /\ zCall' = "failed"
    /\ zPc' = "done"
    /\ zOut' = Respond(503, "Authorization service unavailable")
    /\ zSent' = zSent + 1
    /\ UNCHANGED <<zUrl, zReq, zTimer, zAborted, zStatus, zBody, zSentBody, zNextCalls>>
    /\ UNCHANGED <<authVars, srvVars, fileVars, clientVars>>

\* The timer fires and the call is only given up, not cancelled.
TimeoutFires_NoAbort ==
    /\ zTimer
    /\ zTimer' = FALSE
    /\ zAborted' = FALSE
    /\ IF zPc = "fetching" /\ zCall = "inflight"
       THEN /\ zCall' = "inflight"
            /\ zPc' = "done"
            /\ zOut' = Respond(503, "Authorization service unavailable")
            /\ zSent' = zSent + 1
       ELSE UNCHANGED <<zCall, zPc, zOut, zSent>>
    /\ UNCHANGED <<zUrl, zReq, zStatus, zBody, zSentBody, zNextCalls>>
    /\ UNCHANGED <<authVars, srvVars, fileVars, clientVars>>

\* Lines 60-61, 110-122: the timer fires, controller.abort() rejects the
\* pending fetch with an AbortError, which the catch turns into a 503.
TimeoutFires ==
    /\ zTimer
    /\ zTimer' = FALSE
    /\ zAborted' = TRUE
    /\ IF zPc = "fetching" /\ zCall = "inflight"
       THEN /\ zCall' = "aborted"
            /\ zPc' = "done"
            /\ zOut' = Respond(503, "Authorization service unavailable")
            /\ zSent' = zSent + 1
       ELSE UNCHANGED <<zCall, zPc, zOut, zSent>>
    /\ UNCHANGED <<zUrl, zReq, zStatus, zBody, zSentBody, zNextCalls>>
    /\ UNCHANGED <<authVars, srvVars, fileVars, clientVars>>

\* The outcome for a non-success answer with every status turned into 503.
DecideError_Always503(status, body) ==
    Respond(503, "Authorization service returned an error")

\* Lines 76-91: the outcome for a non-success answer; a body that does not
\* parse is read as {}.
DecideError(status, body) ==
    LET errorRaw == IF body.parsable THEN body ELSE Flat(EmptyPayload)
        errorBody == Unwrap(errorRaw)
    IN  IF status = 403
        THEN Respond(403, Or(errorBody.reason, Or(errorRaw.message, "Access denied")))
        ELSE Respond(503, "Authorization service returned an error")

\* Lines 75-92: the body of a non-success answer is read and answered.
ErrorBodyRead(body) ==
    /\ zPc = "errjson"
    /\ zBody' = body
    /\ zPc' = "done"
    /\ zOut' = DecideError(zStatus, body)
    /\ zSent' = zSent + 1
    /\ UNCHANGED <<zUrl, zReq, zTimer, zAborted, zCall, zStatus, zSentBody, zNextCalls>>
    /\ UNCHANGED <<authVars, srvVars, fileVars, clientVars>>

\* The decision of lines 94-108 with the allowed check dropped.
Decide_NoAllowedCheck(body) ==
    IF ~body.parsable THEN Respond(503, "Authorization service unavailable")
    ELSE CallNext(Or(Unwrap(body).scope, "user"))

\* Lines 94-108 and the catch of 110-122: the outcome for a success answer.
Decide(body) ==
    IF ~body.parsable THEN Respond(503, "Authorization service unavailable")
    ELSE LET authResult == Unwrap(body) IN
         IF ~Truthy(authResult.allowed)
         THEN Respond(403, Or(authResult.reason, "Access denied"))
         ELSE CallNext(Or(authResult.scope, "user"))

\* Lines 94-108: the body of a success answer is read and decided on.
OkBodyRead(body) ==
    /\ zPc = "okjson"
    /\ zBody' = body
    /\ zPc' = "done"
    /\ zOut' = Decide(body)
    /\ zNextCalls' = IF Decide(body).kind = "next" THEN zNextCalls + 1 ELSE zNextCalls
    /\ zSent' = IF Decide(body).kind = "res" THEN zSent + 1 ELSE zSent
    /\ UNCHANGED <<zUrl, zReq, zTimer, zAborted, zCall, zStatus, zSentBody>>
    /\ UNCHANGED <<authVars, srvVars, fileVars, clientVars>>

AuthzNext ==
    \/ \E req \in AuthzRequests : AuthorizeBypass(req)
    \/ \E req \in AuthzRequests : AuthorizePassThrough(req)
    \/ \E req \in AuthzRequests : AuthorizeStart(req)
    \/ \E status \in Statuses : OracleResponds(status)
    \/ OracleFails
    \/ TimeoutFires
    \/ \E body \in Bodies : ErrorBodyRead(body)
    \/ \E body \in Bodies : OkBodyRead(body)

(***************************************************************************)
(* Authentication middlewares (src/src/auth.js) and the JwksClient         *)
(* (src/unnamed/part_002)                                                  *)
(***************************************************************************)

\* Program constant: this.defaultCacheTtl, in ms.
defaultCacheTtl == 3600000

\* The clock advances in steps of ClockStep up to MaxNow.
ClockStep == 500
MaxNow == 1500

\* The algorithms of the allow-list of createAuthMiddleware.
AllowedAlgorithms == {"RS256", "ES256", "HS256"}

Algs == {"RS256", "ES256", "RS512", NoVal}
KeyMaterials == {"K1", "K2"}
Kids == {"k1", "k2"}
Issuers == {"A", "B", "C"}

\* The key of static-key mode.
publicKey == "K1"

\* A token: its header (alg, kid), the key whose private half signed it under
\* the declared algorithm ("forged": none), and its payload.
BaseToken ==
    [decodable |-> TRUE, alg |-> "RS256", kid |-> "k1", iss |-> "A",
     signer |-> "K1", expired |-> FALSE,
     sub |-> "s", user_id |-> NoVal, userId |-> NoVal, id |-> NoVal,
     tenant_id |-> NoVal, tid |-> NoVal, tenant_uuid |-> NoVal, tenantId |-> NoVal]

Garbage == [BaseToken EXCEPT !.decodable = FALSE]

\* Tokens that differ in their subject claims.
TokensClaims ==
    {[BaseToken EXCEPT !.sub = a, !.user_id = b, !.userId = c, !.id = d] :
        a \in {NoVal, "s"}, b \in {NoVal, "a"}, c \in {NoVal, "b"}, d \in {NoVal, "", "c"}}

\* Tokens that differ in their tenant claims.
TokensTenant ==
    {[BaseToken EXCEPT !.tenant_id = a, !.tid = b, !.tenant_uuid = c, !.tenantId = d] :
        a \in {NoVal, "", "t1"}, b \in {NoVal, "t2"}, c \in {NoVal, "t3"},
        d \in {NoVal, "t9"}}

\* Tokens that differ in algorithm, signature and expiry.
TokensAlg ==
    {[BaseToken EXCEPT !.alg = a, !.signer = k, !.expired = e] :
        a \in Algs, k \in {"K1", "forged"}, e \in BOOLEAN}

\* Tokens that differ in issuer, key id and signing key.
TokensKeys ==
    {[BaseToken EXCEPT !.iss = i, !.kid = k, !.signer = m, !.alg = a] :
        i \in Issuers, k \in Kids \cup {"k9"}, m \in KeyMaterials, a \in {"RS256"}}

Schemes == {NoVal, "Bearer ", "bearer "}

AuthReq(scheme, token) == [scheme |-> scheme, token |-> token]

\* Requests of the specification of the middlewares.
AuthRequests ==
    {AuthReq("Bearer ", t) : t \in TokensClaims \cup TokensAlg \cup TokensTenant \cup {Garbage}}
    \cup {AuthReq(sch, BaseToken) : sch \in Schemes}

\* Requests of the specification of the key resolver.
JwksRequests ==
    {AuthReq("Bearer ", t) : t \in TokensKeys \cup {Garbage}}
    \cup {AuthReq(NoVal, BaseToken)}

Jwk(kid, key) == [kid |-> kid, key |-> key]

\* The key sets a key-set endpoint may publish.
JwksFull == {Jwk("k1", "K1"), Jwk("k2", "K2")}
JwksSets == {JwksFull, {Jwk("k1", "K1")}, {Jwk("k1", "K2")}}

Server(issuer, cacheTtl) == [issuer |-> issuer, cacheTtl |-> cacheTtl]

\* The configured lists of auth servers; cacheTtl is in seconds, 0: not set.
ServerLists ==
    { <<>>,
      <<Server("A", 1), Server("B", 0)>>,
      <<Server("*", 1), Server("A", 1)>>,
      <<Server("B", 1), Server("*", 0)>> }

IssuerKeys == {"A", "B", "*"}

NoEntry == [present |-> FALSE, jwks |-> {}, fetchedAt |-> 0]
Entry(jwks, at) == [present |-> TRUE, jwks |-> jwks, fetchedAt |-> at]

NoUser == [present |-> FALSE, id |-> NoVal, tenantId |-> NoVal]

AOut(kind, status, message) == [kind |-> kind, status |-> status, message |-> message]
ANone == AOut("none", 0, NoVal)
ANext == AOut("next", 0, NoVal)
Unauthorized(message) == AOut("res", 401, message)

\* jwt.verify(token, key, {algorithms}): the error name, or "none".
JwtVerify(token, key, algorithms) ==
    IF ~token.decodable THEN "JsonWebTokenError"
    ELSE IF token.alg \notin algorithms THEN "JsonWebTokenError"
    ELSE IF token.signer # key THEN "JsonWebTokenError"
    ELSE IF token.expired THEN "TokenExpiredError"
    ELSE "none"

\* decoded.sub || decoded.user_id || decoded.userId || decoded.id
UserIdOf(decoded) == Or(decoded.sub, Or(decoded.user_id, Or(decoded.userId, decoded.id)))

\* decoded.tenant_id || decoded.tid || decoded.tenant_uuid || null
TenantIdOf(decoded) ==
    Or(decoded.tenant_id, Or(decoded.tid, Or(decoded.tenant_uuid, NoVal)))

\* req.user = { id: userId, ..., ...decoded }: the spread of the payload
\* comes last, so a claim named id of the payload replaces the id set first.
UserOf(decoded) ==
    [present |-> TRUE,
     id |-> IF decoded.id # NoVal THEN decoded.id ELSE UserIdOf(decoded),
     tenantId |-> IF decoded.tenantId # NoVal THEN decoded.tenantId
                  ELSE TenantIdOf(decoded)]

\* The catch answering every error with the same message.
CatchResponse_Generic(err) == Unauthorized("Token validation failed")

\* The catch of the middlewares: the response for an error name.
CatchResponse(err) ==
    IF err = "TokenExpiredError" THEN Unauthorized("Token expired")
    ELSE IF err = "JsonWebTokenError" THEN Unauthorized("Invalid token")
    ELSE Unauthorized("Token validation failed")

\* Verification that attaches req.user whether or not a user id was found.
VerifyAndAttach_NoIdCheck(token, key, algorithms) ==
    LET err == JwtVerify(token, key, algorithms) IN
    IF err # "none" THEN <<err, CatchResponse(err), NoUser>>
    ELSE <<"none", ANext, UserOf(token)>>

\* After the key is known: verify, extract the user id, attach req.user.
\* Yields <<error, outcome, user>>.
VerifyAndAttach(token, key, algorithms) ==
    LET err == JwtVerify(token, key, algorithms) IN
    IF err # "none" THEN <<err, CatchResponse(err), NoUser>>
    ELSE IF ~Truthy(UserIdOf(token))
         THEN <<"MissingUserId", Unauthorized("Token missing user identifier"), NoUser>>
         ELSE <<"none", ANext, UserOf(token)>>

\* The header test with the scheme compared without regard to case.
BadHeader_AnyCase(req) == req.scheme \notin {"Bearer ", "bearer "}

\* !authHeader || !authHeader.startsWith('Bearer ')
BadHeader(req) == req.scheme # "Bearer "

\* authServers.find(s => s.issuer === iss || s.issuer === '*') || authServers[0]
FindServer(servers, iss) ==
    LET hits == {i \in 1..Len(servers) : servers[i].issuer = iss \/ servers[i].issuer = "*"} IN
    IF hits # {} THEN CHOOSE i \in hits : \A j \in hits : i <= j
    ELSE IF Len(servers) > 0 THEN 1 ELSE 0

\* (serverConfig.cacheTtl || this.defaultCacheTtl / 1000) * 1000
CacheTtlMs(server) ==
    (IF server.cacheTtl # 0 THEN server.cacheTtl ELSE defaultCacheTtl \div 1000) * 1000

\* The freshness test with the boundary included.
CacheHit_Inclusive(entry, server, t) ==
    entry.present /\ (t - entry.fetchedAt) <= CacheTtlMs(server)

\* cached && (Date.now() - cached.fetchedAt) < cacheTtl
CacheHit(entry, server, t) == entry.present /\ (t - entry.fetchedAt) < CacheTtlMs(server)

\* The lookup falling back to any key of the set when the kid is not found.
LookupAndVerify_AnyKey(token, jwks) ==
    LET found == {k \in jwks : k.kid = token.kid}
        pool == IF found # {} THEN found ELSE jwks
    IN  IF pool = {}
        THEN <<"KeyNotFound", CatchResponse("Error"), NoUser>>
        ELSE LET jwk == CHOOSE k \in pool : TRUE
                 algorithm == IF token.alg # NoVal THEN token.alg ELSE "RS256"
             IN  VerifyAndAttach(token, jwk.key, {algorithm})

\* jwks.keys.find(k => k.kid === kid), then verification with the key found
\* under algorithms: [alg || 'RS256'].
LookupAndVerify(token, jwks) ==
    LET found == {k \in jwks : k.kid = token.kid} IN
    IF found = {}
    THEN <<"KeyNotFound", CatchResponse("Error"), NoUser>>
    ELSE LET jwk == CHOOSE k \in found : TRUE
             algorithm == IF token.alg # NoVal THEN token.alg ELSE "RS256"
         IN  VerifyAndAttach(token, jwk.key, {algorithm})

\* What createFilesServer is given for authentication: config.authServers
\* (an array, or absent), config.jwksUrl, config.jwtPublicKey and
\* config.jwksCacheTtl (0: not set), each with its environment variable as
\* fallback.
AuthConfig(authServers, jwksUrl, jwtPublicKey, jwksCacheTtl) ==
    [authServers |-> authServers, jwksUrl |-> jwksUrl, jwtPublicKey |-> jwtPublicKey,
     jwksCacheTtl |-> jwksCacheTtl]

Absent == [set |-> FALSE, list |-> <<>>]
Given(list) == [set |-> TRUE, list |-> list]

NoConfig == AuthConfig(Absent, NoVal, NoVal, 0)

Configs ==
    {AuthConfig(a, u, k, 1) :
        a \in {Absent, Given(<<>>), Given(<<Server("A", 0)>>)},
        u \in {NoVal, "url"}, k \in {NoVal, publicKey}}

\* The resolution with the public key taking precedence over the JWKS URL.
resolveAuthMiddleware_KeyFirst(config) ==
    LET cacheTtl == IF config.jwksCacheTtl # 0 THEN config.jwksCacheTtl ELSE 3600 IN
    IF config.authServers.set
    THEN [mode |-> "jwks",
          servers |-> [i \in DOMAIN config.authServers.list |->
                          Server(config.authServers.list[i].issuer, cacheTtl)]]
    ELSE IF Truthy(config.jwtPublicKey)
    THEN [mode |-> "static", servers |-> <<>>]
    ELSE IF Truthy(config.jwksUrl)
    THEN [mode |-> "jwks", servers |-> <<Server("*", cacheTtl)>>]
    ELSE [mode |-> "none", servers |-> <<>>]

\* part_003 126-154: the middleware chosen and the auth servers of its
\* JwksClient.
resolveAuthMiddleware(config) ==
    LET cacheTtl == IF config.jwksCacheTtl # 0 THEN config.jwksCacheTtl ELSE 3600 IN
    IF config.authServers.set
    THEN [mode |-> "jwks",
          servers |-> [i \in DOMAIN config.authServers.list |->
                          Server(config.authServers.list[i].issuer, cacheTtl)]]
    ELSE IF Truthy(config.jwksUrl)
    THEN [mode |-> "jwks", servers |-> <<Server("*", cacheTtl)>>]
    ELSE IF Truthy(config.jwtPublicKey)
    THEN [mode |-> "static", servers |-> <<>>]
    ELSE [mode |-> "none", servers |-> <<>>]

\* The state of a server built by createFilesServer from a configuration.
ConfiguredInit ==
    /\ aConfig \in Configs
    /\ aMode = resolveAuthMiddleware(aConfig).mode
    /\ aServers = resolveAuthMiddleware(aConfig).servers
    /\ aCache = [k \in IssuerKeys |-> NoEntry]
    /\ now = 0
    /\ aReq = AuthReq(NoVal, BaseToken)
    /\ aPc = "idle"
    /\ aServer = 0
    /\ aAge = -1
    /\ aFetches = 0
    /\ aErr = "none"
    /\ aOut = ANone
    /\ aUser = NoUser
    /\ aNextCalls = 0
    /\ aSent = 0

\* The middlewares and a JwksClient constructed by the caller.
AuthInit(lists) ==
    /\ aConfig = NoConfig
    /\ \/ aMode = "static" /\ aServers = <<>>
       \/ aMode = "jwks" /\ aServers \in lists
    /\ aCache = [k \in IssuerKeys |-> NoEntry]
    /\ now = 0
    /\ aReq = AuthReq(NoVal, BaseToken)
    /\ aPc = "idle"
    /\ aServer = 0
    /\ aAge = -1
    /\ aFetches = 0
    /\ aErr = "none"
    /\ aOut = ANone
    /\ aUser = NoUser
    /\ aNextCalls = 0
    /\ aSent = 0

\* A request that goes on to next() after the response for a token without
\* a user id.
Finish_FallsThrough(result) ==
    /\ aPc' = "done"
    /\ aErr' = result[1]
    /\ aOut' = result[2]
    /\ aUser' = result[3]
    /\ aNextCalls' = IF result[2].kind = "next" \/ result[1] = "MissingUserId" THEN 1 ELSE 0
    /\ aSent' = IF result[2].kind = "res" THEN 1 ELSE 0

\* What a request ends with: <<error, outcome, user>>; the outcome is the one
\* call of next() or the one response of the path taken.
Finish(result) ==
    /\ aPc' = "done"
    /\ aErr' = result[1]
    /\ aOut' = result[2]
    /\ aUser' = result[3]
    /\ aNextCalls' = IF result[2].kind = "next" THEN 1 ELSE 0
    /\ aSent' = IF result[2].kind = "res" THEN 1 ELSE 0

\* part_003 146-153: the middleware of a server without authentication.
AuthenticateNone(req) ==
    /\ aMode = "none"
    /\ aPc \in {"idle", "done"}
    /\ aReq' = req
    /\ aServer' = 0
    /\ aAge' = -1
    /\ aFetches' = 0
    /\ Finish(<<"NotConfigured", AOut("res", 503, "Authentication not configured"), NoUser>>)
    /\ UNCHANGED <<aConfig, aMode, aServers, aCache, now>>
    /\ UNCHANGED <<authzVars, srvVars, fileVars, clientVars>>

\* The static-key middleware fetching a key set before it verifies.
AuthenticateJWT_Fetches(req) ==
    /\ aMode = "static"
    /\ aPc \in {"idle", "done"}
    /\ aReq' = req
    /\ aServer' = 0
    /\ aAge' = -1
    /\ aFetches' = 1
    /\ IF BadHeader(req)
       THEN Finish(<<"BadHeader", Unauthorized("Missing or invalid authorization header"), NoUser>>)
       ELSE Finish(VerifyAndAttach(req.token, publicKey, AllowedAlgorithms))
    /\ UNCHANGED <<aConfig, aMode, aServers, aCache, now>>
    /\ UNCHANGED <<authzVars, srvVars, fileVars, clientVars>>

\* auth.js 15-79 (part_003 15-75): authenticateJWT, the static-key middleware.
AuthenticateJWT(req) ==
    /\ aMode = "static"
    /\ aPc \in {"idle", "done"}
    /\ aReq' = req
    /\ aServer' = 0
    /\ aAge' = -1
    /\ aFetches' = 0
    /\ IF BadHeader(req)
       THEN Finish(<<"BadHeader", Unauthorized("Missing or invalid authorization header"), NoUser>>)
       ELSE Finish(VerifyAndAttach(req.token, publicKey, AllowedAlgorithms))
    /\ UNCHANGED <<aConfig, aMode, aServers, aCache, now>>
    /\ UNCHANGED <<authzVars, srvVars, fileVars, clientVars>>

\* The middleware trying a fetch when no server is configured.
AuthenticateJwks_FetchesUnconfigured(req) ==
    /\ aMode = "jwks"
    /\ aPc \in {"idle", "done"}
    /\ aReq' = req
    /\ UNCHANGED <<aConfig, aMode, aServers, aCache, now>>
    /\ IF BadHeader(req)
       THEN /\ Finish(<<"BadHeader", Unauthorized("Missing or invalid authorization header"), NoUser>>)
            /\ aServer' = 0 /\ aAge' = -1 /\ aFetches' = 0
       ELSE IF ~req.token.decodable
       THEN /\ Finish(<<"InvalidToken", CatchResponse("Error"), NoUser>>)
            /\ aServer' = 0 /\ aAge' = -1 /\ aFetches' = 0
       ELSE LET s == FindServer(aServers, req.token.iss) IN
            IF s = 0
            THEN /\ Finish(<<"FetchFailed", CatchResponse("Error"), NoUser>>)
                 /\ aServer' = 0 /\ aAge' = -1 /\ aFetches' = 1
            ELSE LET entry == aCache[aServers[s].issuer] IN
                 /\ aServer' = s
                 /\ aAge' = IF entry.present THEN now - entry.fetchedAt ELSE -1
                 /\ IF CacheHit(entry, aServers[s], now)
                    THEN /\ Finish(LookupAndVerify(req.token, entry.jwks))
                         /\ aFetches' = 0
                    ELSE /\ aPc' = "fetching"
                         /\ aFetches' = 1
                         /\ aErr' = "none"
                         /\ aOut' = ANone
                         /\ aUser' = NoUser
                         /\ aNextCalls' = 0
                         /\ aSent' = 0
    /\ UNCHANGED <<authzVars, srvVars, fileVars, clientVars>>

\* auth.js 94-158 with getSigningKey and fetchJwks up to the fetch: the header
\* check, the decoding, the choice of the server and the cache read; the
\* request ends here unless a key-set fetch is issued.
AuthenticateJwks(req) ==
    /\ aMode = "jwks"
    /\ aPc \in {"idle", "done"}
    /\ aReq' = req
    /\ UNCHANGED <<aConfig, aMode, aServers, aCache, now>>
    /\ IF BadHeader(req)
       THEN /\ Finish(<<"BadHeader", Unauthorized("Missing or invalid authorization header"), NoUser>>)
            /\ aServer' = 0 /\ aAge' = -1 /\ aFetches' = 0
       ELSE IF ~req.token.decodable
       THEN /\ Finish(<<"InvalidToken", CatchResponse("Error"), NoUser>>)
            /\ aServer' = 0 /\ aAge' = -1 /\ aFetches' = 0
       ELSE LET s == FindServer(aServers, req.token.iss) IN
            IF s = 0
            THEN /\ Finish(<<"NoServer", CatchResponse("Error"), NoUser>>)
                 /\ aServer' = 0 /\ aAge' = -1 /\ aFetches' = 0
            ELSE LET entry == aCache[aServers[s].issuer] IN
                 /\ aServer' = s
                 /\ aAge' = IF entry.present THEN now - entry.fetchedAt ELSE -1
                 /\ IF CacheHit(entry, aServers[s], now)
                    THEN /\ Finish(LookupAndVerify(req.token, entry.jwks))
                         /\ aFetches' = 0
                    ELSE /\ aPc' = "fetching"
                         /\ aFetches' = 1
                         /\ aErr' = "none"
                         /\ aOut' = ANone
                         /\ aUser' = NoUser
                         /\ aNextCalls' = 0
                         /\ aSent' = 0
    /\ UNCHANGED <<authzVars, srvVars, fileVars, clientVars>>

\* A failed fetch that also drops the cached entry of the issuer.
JwksResponds_DropsEntry(ok) ==
    /\ aPc = "fetching"
    /\ IF ok
       THEN /\ aPc' = "json"
            /\ UNCHANGED <<aErr, aOut, aUser, aNextCalls, aSent, aCache>>
       ELSE /\ Finish(<<"FetchFailed", CatchResponse("Error"), NoUser>>)
            /\ aCache' = [aCache EXCEPT ![aServers[aServer].issuer] = NoEntry]
    /\ UNCHANGED <<aConfig, aMode, aServers, now, aReq, aServer, aAge, aFetches>>
    /\ UNCHANGED <<authzVars, srvVars, fileVars, clientVars>>

\* part_002 45-48: the key-set endpoint answers; a non-success answer throws.
JwksResponds(ok) ==
    /\ aPc = "fetching"
    /\ IF ok
       THEN /\ aPc' = "json"
            /\ UNCHANGED <<aErr, aOut, aUser, aNextCalls, aSent>>
       ELSE Finish(<<"FetchFailed", CatchResponse("Error"), NoUser>>)
    /\ UNCHANGED <<aConfig, aMode, aServers, aCache, now, aReq, aServer, aAge, aFetches>>
    /\ UNCHANGED <<authzVars, srvVars, fileVars, clientVars>>

\* part_002 50-53, 27-34 and auth.js 110-133: the key set is parsed and
\* cached, the key is looked up and the token verified.
JwksBodyRead(jwks) ==
    /\ aPc = "json"
    /\ aCache' = [aCache EXCEPT ![aServers[aServer].issuer] = Entry(jwks, now)]
    /\ Finish(LookupAndVerify(aReq.token, jwks))
    /\ UNCHANGED <<aConfig, aMode, aServers, now, aReq, aServer, aAge, aFetches>>
    /\ UNCHANGED <<authzVars, srvVars, fileVars, clientVars>>

\* Time passes.
Tick ==
    /\ now + ClockStep <= MaxNow
    /\ now' = now + ClockStep
    /\ UNCHANGED <<aConfig, aMode, aServers, aCache, aReq, aPc, aServer, aAge, aFetches,
                   aErr, aOut, aUser, aNextCalls, aSent>>
    /\ UNCHANGED <<authzVars, srvVars, fileVars, clientVars>>

(***************************************************************************)
(* The assembled server: the middleware stack of createFilesServer         *)
(* (src/unnamed/part_003 214-227) and the rate limiters                    *)
(* (src/unnamed/part_004)                                                  *)
(***************************************************************************)

\* Configuration of the limiters: window in ms and the two thresholds.
rateLimitWindowMs == 1000
rateLimitUpload == 1
rateLimitDownload == 2

\* The clock of the server advances in steps of WindowStep up to MaxServerNow.
WindowStep == 1000
MaxServerNow == 1000

\* No counter is driven beyond MaxHits.
MaxHits == 4

TokenOf(user) == [BaseToken EXCEPT !.sub = user]
Forged == [BaseToken EXCEPT !.signer = "forged"]

\* A valid token whose payload also has an empty id claim.
EmptyId(user) == [BaseToken EXCEPT !.sub = user, !.id = ""]

SReq(method, path, scheme, token) ==
    [method |-> method, path |-> path, scheme |-> scheme, token |-> token, ip |-> "ip1"]

\* The requests sent to the server.
ServerRequests ==
    {SReq(m[1], m[2], "Bearer ", TokenOf("u1")) :
        m \in {<<"POST", <<"upload">>>>, <<"GET", <<"files", "f1">>>>,
               <<"GET", <<"files", "bad">>>>, <<"GET", <<"files">>>>,
               <<"DELETE", <<"files", "f1">>>>, <<"GET", <<"health">>>>,
               <<"GET", <<"other">>>>}}
    \cup {SReq("GET", <<"files", "f1">>, "Bearer ", TokenOf("u2")),
          SReq("POST", <<"upload">>, "Bearer ", Forged),
          SReq("GET", <<"files">>, "Bearer ", EmptyId("u1")),
          SReq("GET", <<"files">>, NoVal, BaseToken),
          SReq("GET", <<"health">>, NoVal, BaseToken)}

NoSReq == SReq("GET", <<"health">>, NoVal, BaseToken)

\* What the oracle does with one call: it answers with a status and a body,
\* or the call fails (transport error or timeout).
OracleAnswer(kind, status, body) == [kind |-> kind, status |-> status, body |-> body]

OracleAnswers ==
    {OracleAnswer("answer", 200, Flat([allowed |-> "true", scope |-> "user", reason |-> NoVal])),
     OracleAnswer("answer", 200, Wrap([allowed |-> "true", scope |-> "tenant", reason |-> NoVal], NoVal, NoVal)),
     OracleAnswer("answer", 200, Flat([allowed |-> "false", scope |-> NoVal, reason |-> "r1"])),
     OracleAnswer("answer", 500, Unparsable),
     OracleAnswer("fail", 0, Unparsable)}

LimiterKeys == {"u1", "u2", "ip1"}

NoHits == [hits |-> 0, resetTime |-> 0]
EmptyStore == [k \in LimiterKeys |-> NoHits]

\* The state of a request in the stack, as the middlewares read and write it.
Pipe(user, scope, out, calls, storage, sent, trace, up, down) ==
    [user |-> user, scope |-> scope, out |-> out, calls |-> calls,
     storage |-> storage, sent |-> sent, trace |-> trace, up |-> up, down |-> down]

Responded(p) == p.out.kind = "res"

\* part_003 126-154 with auth.js: the authenticate middleware of the server.
Authenticate(p, req) ==
    IF Responded(p) THEN p
    ELSE LET q == [p EXCEPT !.trace = Append(@, "authenticate")] IN
         IF sAuth = "none"
         THEN [q EXCEPT !.out = Respond(503, "Authentication not configured")]
         ELSE IF BadHeader(req)
         THEN [q EXCEPT !.out = Respond(401, "Missing or invalid authorization header")]
         ELSE LET r == VerifyAndAttach(req.token, publicKey, AllowedAlgorithms) IN
              IF r[2].kind = "next"
              THEN [q EXCEPT !.user = r[3].id]
              ELSE [q EXCEPT !.out = Respond(r[2].status, r[2].message)]

\* The request as the middlewares mounted with app.use read it: req.params
\* is empty there, the :id of the path being bound only inside the router of
\* the route, and the body of a multipart upload is not parsed yet.
MiddlewareReq(req) ==
    [method |-> req.method, path |-> req.path, paramsId |-> NoVal,
     authorization |-> IF req.scheme = NoVal THEN NoVal ELSE "Bearer t1",
     resource_type |-> NoVal, resource_id |-> NoVal]

\* authorization.js 18-124 as one call of the middleware; under app.use the
\* request has no route parameters.
Authorize(p, req, answer) ==
    IF Responded(p) THEN p
    ELSE LET q == [p EXCEPT !.trace = Append(@, "authorize")] IN
         IF ~sUrl \/ ActionOf(req) = NoVal
         THEN [q EXCEPT !.scope = "user"]
         ELSE LET d == IF answer.kind = "fail"
                       THEN Respond(503, "Authorization service unavailable")
                       ELSE IF ResponseOk(answer.status) THEN Decide(answer.body)
                       ELSE DecideError(answer.status, answer.body)
                  sent == DecisionBody(MiddlewareReq(req))
              IN  IF d.kind = "next"
                  THEN [q EXCEPT !.scope = d.scope, !.calls = @ + 1, !.sent = sent]
                  ELSE [q EXCEPT !.out = d, !.calls = @ + 1, !.sent = sent]

\* The store of a limiter: a hit opens a window of rateLimitWindowMs for a key
\* without a live entry and is counted in the entry otherwise.
Increment(store, key, t) ==
    LET e == store[key] IN
    IF e.hits > 0 /\ t < e.resetTime
    THEN [store EXCEPT ![key] = [hits |-> e.hits + 1, resetTime |-> e.resetTime]]
    ELSE [store EXCEPT ![key] = [hits |-> 1, resetTime |-> t + rateLimitWindowMs]]

\* part_004 8: keyGenerator
KeyGenerator(p, req) == Or(p.user, req.ip)

\* part_004 10-17: uploadLimiter
UploadLimiter(p, req) ==
    IF Responded(p) THEN p
    ELSE LET key == KeyGenerator(p, req)
             store == Increment(p.up, key, sNow)
         IN  [p EXCEPT !.up = store,
                       !.trace = Append(@, "uploadLimiter"),
                       !.out = IF store[key].hits > rateLimitUpload
                               THEN Respond(429, "Upload rate limit exceeded. Try again later.")
                               ELSE @]

\* part_004 19-26: downloadLimiter
DownloadLimiter(p, req) ==
    IF Responded(p) THEN p
    ELSE LET key == KeyGenerator(p, req)
             store == Increment(p.down, key, sNow)
         IN  [p EXCEPT !.down = store,
                       !.trace = Append(@, "downloadLimiter"),
                       !.out = IF store[key].hits > rateLimitDownload
                               THEN Respond(429, "Rate limit exceeded. Try again later.")
                               ELSE @]

\* The file ids that are UUIDs.
FileIds == {"f1", "f2"}

\* The uuid test of the routes, on the id segment of the path.
ValidFileId(id) == id \in FileIds

\* A router: its route answers the request it matches, after the storage
\* call; any other request goes on to the next layer.
Router(p, req, method, route, storage) ==
    IF Responded(p) THEN p
    ELSE IF req.method = method /\ RouteMatches(req.path, route)
         THEN IF Len(route) = 2 /\ ~ValidFileId(req.path[2])
              THEN [p EXCEPT !.out = Respond(400, "Invalid file ID format")]
              ELSE [p EXCEPT !.out = Respond(200, NoVal), !.storage = storage,
                             !.trace = Append(@, "storage")]
         ELSE p

ThePipe ==
    Pipe(sUser, sScope, sOut, sCalls, sStorage, sSent, sTrace, uploadStore, downloadStore)

\* The class of a request: the limiter meant for it.
ClassOf(req) ==
    IF req.method = "POST" /\ req.path = <<"upload">> THEN "upload"
    ELSE IF req.method \in {"GET", "DELETE"} /\ req.path[1] = "files" THEN "download"
    ELSE "none"

Classes == {"upload", "download"}

Threshold(class) == IF class = "upload" THEN rateLimitUpload ELSE rateLimitDownload

NoSeen == [count |-> 0, windowStart |-> 0]

\* The counter of a class and key after one more request of the class at t.
SeenAfter(seen, t) ==
    IF seen.count > 0 /\ t < seen.windowStart + rateLimitWindowMs
    THEN [count |-> seen.count + 1, windowStart |-> seen.windowStart]
    ELSE [count |-> 1, windowStart |-> t]

\* The pipe state p becomes the state of the server.
Store(p, pos) ==
    /\ sUser' = p.user
    /\ sScope' = p.scope
    /\ sOut' = p.out
    /\ sCalls' = p.calls
    /\ sStorage' = p.storage
    /\ sSent' = p.sent
    /\ sTrace' = p.trace
    /\ uploadStore' = p.up
    /\ downloadStore' = p.down
    /\ sPos' = IF Responded(p) THEN 7 ELSE pos

ServerInit ==
    /\ sAuth \in {"static", "none"}
    /\ sUrl \in BOOLEAN
    /\ sNow = 0
    /\ sReq = NoSReq
    /\ sPos = 0
    /\ sUser = NoVal
    /\ sScope = NoVal
    /\ sOut = NoOut
    /\ sCalls = 0
    /\ sStorage = "none"
    /\ sSent = NoDecisionBody
    /\ sTrace = <<>>
    /\ uploadStore = EmptyStore
    /\ downloadStore = EmptyStore
    /\ sSeen = [c \in Classes |-> [k \in LimiterKeys |-> NoSeen]]
    /\ sExpect = "none"

\* A request arrives.
Receive(req) ==
    /\ sPos \in {0, 7}
    /\ \A k \in LimiterKeys :
          uploadStore[k].hits + 1 <= MaxHits /\ downloadStore[k].hits + 3 <= MaxHits
    /\ sReq' = req
    /\ sPos' = 1
    /\ sUser' = NoVal
    /\ sScope' = NoVal
    /\ sOut' = NoOut
    /\ sCalls' = 0
    /\ sStorage' = "none"
    /\ sSent' = NoDecisionBody
    /\ sTrace' = <<>>
    /\ sExpect' = "none"
    /\ UNCHANGED <<sAuth, sUrl, sNow, uploadStore, downloadStore, sSeen>>
    /\ UNCHANGED <<authzVars, authVars, fileVars, clientVars>>

\* The health router mounted behind the authentication.
HealthRoute_AfterAuth ==
    /\ sPos = 1
    /\ IF sReq.method = "GET" /\ RouteMatches(sReq.path, <<"health">>)
       THEN LET p == Authenticate(ThePipe, sReq) IN
            Store(IF Responded(p) THEN p ELSE [p EXCEPT !.out = Respond(200, "healthy")], 7)
       ELSE Store(ThePipe, 2)
    /\ UNCHANGED <<sAuth, sUrl, sNow, sReq, sSeen, sExpect>>
    /\ UNCHANGED <<authzVars, authVars, fileVars, clientVars>>

\* part_003 215 with routes/health.js 10-20: app.use(createHealthRouter())
HealthRoute ==
    /\ sPos = 1
    /\ IF sReq.method = "GET" /\ RouteMatches(sReq.path, <<"health">>)
       THEN Store([ThePipe EXCEPT !.out = Respond(200, "healthy")], 7)
       ELSE Store(ThePipe, 2)
    /\ UNCHANGED <<sAuth, sUrl, sNow, sReq, sSeen, sExpect>>
    /\ UNCHANGED <<authzVars, authVars, fileVars, clientVars>>

\* The upload group with the limiter mounted before the authorization.
UploadRoute_LimiterFirst(answer) ==
    /\ sPos = 2
    /\ LET gate == Authorize(UploadLimiter(Authenticate(ThePipe, sReq), sReq), sReq, answer)
           class == ClassOf(sReq)
           key == KeyGenerator(gate, sReq)
       IN  /\ Store(Router(gate, sReq, "POST", <<"upload">>, "upload"), 3)
           /\ IF ~Responded(gate) /\ class \in Classes
              THEN LET seen == SeenAfter(sSeen[class][key], sNow) IN
                   /\ sSeen' = [sSeen EXCEPT ![class][key] = seen]
                   /\ sExpect' = IF seen.count > Threshold(class) THEN "reject" ELSE "admit"
              ELSE UNCHANGED <<sSeen, sExpect>>
    /\ UNCHANGED <<sAuth, sUrl, sNow, sReq>>
    /\ UNCHANGED <<authzVars, authVars, fileVars, clientVars>>

\* part_003 216: app.use(authenticate, authorize, uploadLimiter, createUploadRouter(...))
UploadRoute(answer) ==
    /\ sPos = 2
    /\ LET gate == Authorize(Authenticate(ThePipe, sReq), sReq, answer)
           class == ClassOf(sReq)
           key == KeyGenerator(gate, sReq)
       IN  /\ Store(Router(UploadLimiter(gate, sReq), sReq, "POST", <<"upload">>, "upload"), 3)
           /\ IF ~Responded(gate) /\ class \in Classes
              THEN LET seen == SeenAfter(sSeen[class][key], sNow) IN
                   /\ sSeen' = [sSeen EXCEPT ![class][key] = seen]
                   /\ sExpect' = IF seen.count > Threshold(class) THEN "reject" ELSE "admit"
              ELSE UNCHANGED <<sSeen, sExpect>>
    /\ UNCHANGED <<sAuth, sUrl, sNow, sReq>>
    /\ UNCHANGED <<authzVars, authVars, fileVars, clientVars>>

\* part_003 217: app.use(authenticate, authorize, downloadLimiter, createDownloadRouter(...))
DownloadRoute(answer) ==
    /\ sPos = 3
    /\ Store(Router(DownloadLimiter(Authorize(Authenticate(ThePipe, sReq), sReq, answer), sReq),
                    sReq, "GET", <<"files", "id">>, "download"), 4)
    /\ UNCHANGED <<sAuth, sUrl, sNow, sReq, sSeen, sExpect>>
    /\ UNCHANGED <<authzVars, authVars, fileVars, clientVars>>

\* part_003 218: app.use(authenticate, downloadLimiter, createListRouter(...))
ListRoute ==
    /\ sPos = 4
    /\ Store(Router(DownloadLimiter(Authenticate(ThePipe, sReq), sReq),
                    sReq, "GET", <<"files">>, "list"), 5)
    /\ UNCHANGED <<sAuth, sUrl, sNow, sReq, sSeen, sExpect>>
    /\ UNCHANGED <<authzVars, authVars, fileVars, clientVars>>

\* part_003 219: app.use(authenticate, authorize, downloadLimiter, createDeleteRouter(...))
DeleteRoute(answer) ==
    /\ sPos = 5
    /\ Store(Router(DownloadLimiter(Authorize(Authenticate(ThePipe, sReq), sReq, answer), sReq),
                    sReq, "DELETE", <<"files", "id">>, "delete"), 6)
    /\ UNCHANGED <<sAuth, sUrl, sNow, sReq, sSeen, sExpect>>
    /\ UNCHANGED <<authzVars, authVars, fileVars, clientVars>>

\* part_003 221-227: the 404 handler
NotFound ==
    /\ sPos = 6
    /\ Store([ThePipe EXCEPT !.out = Respond(404, "The requested endpoint does not exist")], 7)
    /\ UNCHANGED <<sAuth, sUrl, sNow, sReq, sSeen, sExpect>>
    /\ UNCHANGED <<authzVars, authVars, fileVars, clientVars>>

\* Time passes; an entry whose window is over counts for nothing any more
\* and is dropped.
WindowTick ==
    /\ sNow + WindowStep <= MaxServerNow
    /\ sNow' = sNow + WindowStep
    /\ uploadStore' = [k \in LimiterKeys |->
          IF uploadStore[k].resetTime <= sNow' THEN NoHits ELSE uploadStore[k]]
    /\ downloadStore' = [k \in LimiterKeys |->
          IF downloadStore[k].resetTime <= sNow' THEN NoHits ELSE downloadStore[k]]
    /\ sSeen' = [c \in Classes |-> [k \in LimiterKeys |->
          IF sSeen[c][k].windowStart + rateLimitWindowMs <= sNow' THEN NoSeen ELSE sSeen[c][k]]]
    /\ UNCHANGED <<sAuth, sUrl, sReq, sPos, sUser, sScope, sOut, sCalls, sStorage,
                   sSent, sTrace, sExpect>>
    /\ UNCHANGED <<authzVars, authVars, fileVars, clientVars>>

ServerNext ==
    \/ \E req \in ServerRequests : Receive(req)
    \/ HealthRoute
    \/ \E answer \in OracleAnswers : UploadRoute(answer)
    \/ \E answer \in OracleAnswers : DownloadRoute(answer)
    \/ ListRoute
    \/ \E answer \in OracleAnswers : DeleteRoute(answer)
    \/ NotFound
    \/ WindowTick

(***************************************************************************)
(* The storage client (src/src/azure-storage.js, 209-464) and the route    *)
(* handlers that call it (src/src/routes)                                  *)
(*                                                                         *)
(* A blob name is the sequence of its segments: "t1/u1/<fileId>.ext" is    *)
(* <<"t1", "u1", fileId>>.  Ids hold no "/".                               *)
(***************************************************************************)

\* The callers, each with req.user.id and req.user.tenantId: two users of
\* tenant t1 and a user without a tenant whose id is t1.
Identities == {<<"u1", "t1">>, <<"u2", "t1">>, <<"t1", NoVal>>}

Scopes == {NoVal, "user", "tenant"}

Blob(name, fileId, userId, tenantId, scope) ==
    [name |-> name, file_id |-> fileId, user_id |-> userId,
     tenant_id |-> tenantId, scope |-> scope]

NoBlob == Blob(<<>>, NoVal, NoVal, NoVal, NoVal)

\* A call: by a route handler ("route") or of the client itself ("direct").
\* scope is req.fileScope for a handler and the scope argument otherwise;
\* file says that the upload carries a file.
FReq(via, op, id, user, tenant, scope, file) ==
    [via |-> via, op |-> op, id |-> id, user |-> user, tenant |-> tenant,
     scope |-> scope, file |-> file]

NoFReq == FReq("none", "none", NoVal, NoVal, NoVal, NoVal, FALSE)

\* The calls of upload (id: the uuid generated), of download and delete
\* (id: the id asked for) and of list.
FileRequests(via, op) ==
    IF op = "list"
    THEN {FReq(via, op, NoVal, who[1], who[2], scope, TRUE) :
             who \in Identities, scope \in Scopes}
    ELSE {FReq(via, op, id, who[1], who[2], scope, TRUE) :
             id \in FileIds, who \in Identities, scope \in Scopes}
         \cup (IF via = "route" /\ op = "upload"
               THEN {FReq(via, op, "f1", "u1", "t1", "user", FALSE)}
               ELSE IF via = "route"
               THEN {FReq(via, op, "bad", "u1", "t1", "user", TRUE)}
               ELSE {})

\* A default parameter: scope = 'user' applies when the argument is undefined.
DefaultScope(scope) == IF scope = NoVal THEN "user" ELSE scope

\* azure-storage.js 268-273: the prefix of uploadFile
UploadPrefix(scope, tenantId, userId) ==
    IF scope = "tenant"
    THEN IF Truthy(tenantId) THEN <<tenantId, "shared">> ELSE <<"shared">>
    ELSE IF Truthy(tenantId) THEN <<tenantId, userId>> ELSE <<userId>>

\* azure-storage.js 326-331: the prefix of downloadFile
DownloadPrefix(scope, tenantId, userId) ==
    IF scope = "tenant"
    THEN IF Truthy(tenantId) THEN <<tenantId, "shared">> ELSE <<"shared">>
    ELSE IF Truthy(tenantId) THEN <<tenantId, userId>> ELSE <<userId>>

\* azure-storage.js 384-389: the prefix of listFiles
ListPrefix(scope, tenantId, userId) ==
    IF scope = "tenant"
    THEN IF Truthy(tenantId) THEN <<tenantId, "shared">> ELSE <<"shared">>
    ELSE IF Truthy(tenantId) THEN <<tenantId, userId>> ELSE <<userId>>

\* The prefix of deleteFile with the scope ignored.
DeletePrefix_UserOnly(scope, tenantId, userId) ==
    IF Truthy(tenantId) THEN <<tenantId, userId>> ELSE <<userId>>

\* azure-storage.js 429-434: the prefix of deleteFile
DeletePrefix(scope, tenantId, userId) ==
    IF scope = "tenant"
    THEN IF Truthy(tenantId) THEN <<tenantId, "shared">> ELSE <<"shared">>
    ELSE IF Truthy(tenantId) THEN <<tenantId, userId>> ELSE <<userId>>

\* The name starts with the prefix.
HasPrefix(name, prefix) ==
    Len(name) >= Len(prefix) /\ SubSeq(name, 1, Len(prefix)) = prefix

\* containerClient.listBlobsFlat({prefix, includeMetadata: true})
ListBlobsFlat(container, prefix) == {b \in container : HasPrefix(b.name, prefix)}

\* The outcome of a storage call: the container after it, the scope and the
\* prefix it used, the error it threw ("none": it returned), the blob it
\* matched and the file ids it returned.
Outcome(container, scope, prefix, err, found, files) ==
    [blobs |-> container, scope |-> scope, prefix |-> prefix, err |-> err,
     found |-> found, files |-> files]

NotConfigured(container, scope) ==
    Outcome(container, scope, <<>>, "Storage not configured", NoBlob, {})

\* azure-storage.js 254-304
uploadFile(container, fileId, tenantId, userId, scopeArg) ==
    LET scope == DefaultScope(scopeArg)
        prefix == UploadPrefix(scope, tenantId, userId)
        blob == Blob(Append(prefix, fileId), fileId, userId, Or(tenantId, ""), scope)
    IN  IF ~isConfigured THEN NotConfigured(container, scope)
        ELSE Outcome({b \in container : b.name # blob.name} \cup {blob},
                     scope, prefix, "none", blob, {})

\* downloadFile without the ownership check.
downloadFile_NoOwnerCheck(container, fileId, tenantId, userId, scopeArg) ==
    LET scope == DefaultScope(scopeArg)
        prefix == DownloadPrefix(scope, tenantId, userId)
        matches == {b \in ListBlobsFlat(container, prefix) : b.file_id = fileId}
    IN  IF ~isConfigured THEN NotConfigured(container, scope)
        ELSE IF matches = {}
        THEN Outcome(container, scope, prefix, "File not found", NoBlob, {})
        ELSE Outcome(container, scope, prefix, "none", CHOOSE b \in matches : TRUE, {})

\* azure-storage.js 314-363; file ids are unique in the container, so that
\* the first blob of the listing that matches is the only one.
downloadFile(container, fileId, tenantId, userId, scopeArg) ==
    LET scope == DefaultScope(scopeArg)
        prefix == DownloadPrefix(scope, tenantId, userId)
        matches == {b \in ListBlobsFlat(container, prefix) : b.file_id = fileId}
    IN  IF ~isConfigured THEN NotConfigured(container, scope)
        ELSE IF matches = {}
        THEN Outcome(container, scope, prefix, "File not found", NoBlob, {})
        ELSE LET blob == CHOOSE b \in matches : TRUE IN
             IF scope = "user" /\ blob.user_id # userId
             THEN Outcome(container, scope, prefix,
                          "Unauthorized: File belongs to different user", blob, {})
             ELSE Outcome(container, scope, prefix, "none", blob, {})

\* azure-storage.js 372-408
listFiles(container, tenantId, userId, scopeArg) ==
    LET scope == DefaultScope(scopeArg)
        prefix == ListPrefix(scope, tenantId, userId)
    IN  IF ~isConfigured THEN NotConfigured(container, scope)
        ELSE Outcome(container, scope, prefix, "none", NoBlob,
                     {b.file_id : b \in ListBlobsFlat(container, prefix)})

\* deleteFile reporting success without deleting the blob.
deleteFile_KeepsBlob(container, fileId, tenantId, userId, scopeArg) ==
    LET scope == DefaultScope(scopeArg)
        prefix == DeletePrefix(scope, tenantId, userId)
        matches == {b \in ListBlobsFlat(container, prefix) : b.file_id = fileId}
    IN  IF ~isConfigured THEN NotConfigured(container, scope)
        ELSE IF matches = {}
        THEN Outcome(container, scope, prefix, "File not found", NoBlob, {})
        ELSE LET blob == CHOOSE b \in matches : TRUE IN
             IF scope = "user" /\ blob.user_id # userId
             THEN Outcome(container, scope, prefix,
                          "Unauthorized: File belongs to different user", blob, {})
             ELSE Outcome(container, scope, prefix, "none", blob, {})

\* azure-storage.js 417-455
deleteFile(container, fileId, tenantId, userId, scopeArg) ==
    LET scope == DefaultScope(scopeArg)
        prefix == DeletePrefix(scope, tenantId, userId)
        matches == {b \in ListBlobsFlat(container, prefix) : b.file_id = fileId}
    IN  IF ~isConfigured THEN NotConfigured(container, scope)
        ELSE IF matches = {}
        THEN Outcome(container, scope, prefix, "File not found", NoBlob, {})
        ELSE LET blob == CHOOSE b \in matches : TRUE IN
             IF scope = "user" /\ blob.user_id # userId
             THEN Outcome(container, scope, prefix,
                          "Unauthorized: File belongs to different user", blob, {})
             ELSE Outcome(container \ {blob}, scope, prefix, "none", blob, {})

NoCall == Outcome({}, NoVal, <<>>, "none", NoBlob, {})

\* The catch of the download and delete handlers: the response for an error.
FileErrorResponse(err, what) ==
    IF err = "File not found" THEN Respond(404, "File not found")
    ELSE IF err = "Unauthorized: File belongs to different user" THEN Respond(403, err)
    ELSE IF err = "Storage not configured" THEN Respond(503, err)
    ELSE Respond(500, what)

FilesInit ==
    /\ blobs = {}
    /\ isConfigured \in BOOLEAN
    /\ fReq = NoFReq
    /\ fCall = NoCall
    /\ fOut = NoOut

\* The state after a call: the container, the call and the response.
Done(req, outcome, out) ==
    /\ fReq' = req
    /\ blobs' = outcome.blobs
    /\ fCall' = [outcome EXCEPT !.blobs = {}]
    /\ fOut' = out
    /\ UNCHANGED isConfigured
    /\ UNCHANGED <<authzVars, authVars, srvVars, clientVars>>

\* uuidv4(): the id generated is the id of no blob.
Fresh(id) == \A b \in blobs : b.file_id # id

\* upload.js 33-91: POST /upload; the handler passes no scope.
UploadHandler(req) ==
    /\ req.via = "route" /\ req.op = "upload"
    /\ Fresh(req.id)
    /\ IF ~req.file
       THEN Done(req, NoCall, Respond(400, "No file uploaded"))
       ELSE \E r \in {uploadFile(blobs, req.id, req.tenant, req.user, NoVal)} :
            Done(req, r,
                 IF r.err = "none" THEN Respond(201, NoVal)
                 ELSE IF r.err = "Storage not configured" THEN Respond(503, r.err)
                 ELSE Respond(500, "Failed to upload file"))

\* upload.js 112-177: GET /files/:id; the handler passes no scope.
DownloadHandler(req) ==
    /\ req.via = "route" /\ req.op = "download"
    /\ IF ~ValidFileId(req.id)
       THEN Done(req, NoCall, Respond(400, "Invalid file ID format"))
       ELSE \E r \in {downloadFile(blobs, req.id, req.tenant, req.user, NoVal)} :
            Done(req, r,
                 IF r.err = "none" THEN Respond(200, NoVal)
                 ELSE FileErrorResponse(r.err, "Failed to download file"))

\* list.js 17-38: GET /files; the handler passes no scope and answers every
\* error with 500.
ListHandler(req) ==
    /\ req.via = "route" /\ req.op = "list"
    /\ \E r \in {listFiles(blobs, req.tenant, req.user, NoVal)} :
       Done(req, r,
            IF r.err = "none" THEN Respond(200, NoVal)
            ELSE Respond(500, "Failed to list files"))

\* delete.js 17-69: DELETE /files/:id with scope = req.fileScope || 'user'
DeleteHandler(req) ==
    /\ req.via = "route" /\ req.op = "delete"
    /\ IF ~ValidFileId(req.id)
       THEN Done(req, NoCall, Respond(400, "Invalid file ID format"))
       ELSE \E r \in {deleteFile(blobs, req.id, req.tenant, req.user, Or(req.scope, "user"))} :
            Done(req, r,
                 IF r.err = "none" THEN Respond(200, "File deleted successfully")
                 ELSE FileErrorResponse(r.err, "Failed to delete file"))

\* A caller of the exported client uses it with a scope of its choice.
UploadFile(req) ==
    /\ req.via = "direct" /\ req.op = "upload"
    /\ Fresh(req.id)
    /\ \E r \in {uploadFile(blobs, req.id, req.tenant, req.user, req.scope)} : Done(req, r, NoOut)

DownloadFile(req) ==
    /\ req.via = "direct" /\ req.op = "download"
    /\ \E r \in {downloadFile(blobs, req.id, req.tenant, req.user, req.scope)} : Done(req, r, NoOut)

ListFiles(req) ==
    /\ req.via = "direct" /\ req.op = "list"
    /\ \E r \in {listFiles(blobs, req.tenant, req.user, req.scope)} : Done(req, r, NoOut)

DeleteFile(req) ==
    /\ req.via = "direct" /\ req.op = "delete"
    /\ \E r \in {deleteFile(blobs, req.id, req.tenant, req.user, req.scope)} : Done(req, r, NoOut)

FilesNext ==
    \/ \E req \in FileRequests("route", "upload") : UploadHandler(req)
    \/ \E req \in FileRequests("route", "download") : DownloadHandler(req)
    \/ \E req \in FileRequests("route", "list") : ListHandler(req)
    \/ \E req \in FileRequests("route", "delete") : DeleteHandler(req)
    \/ \E req \in FileRequests("direct", "upload") : UploadFile(req)
    \/ \E req \in FileRequests("direct", "download") : DownloadFile(req)
    \/ \E req \in FileRequests("direct", "list") : ListFiles(req)
    \/ \E req \in FileRequests("direct", "delete") : DeleteFile(req)

(***************************************************************************)
(* One JwksClient under concurrent requests (src/unnamed/part_002): each   *)
(* request runs getSigningKey, whose awaits (the fetch and the reading of  *)
(* the body) are the points at which other requests run.                   *)
(***************************************************************************)

\* The number of requests in flight at a time.
MaxRequests == 2

Requests == 1..MaxRequests

\* The one auth server of the client, with cacheTtl 1 s.
TheServer == Server("A", 1)

\* The key set of a lookup: taken from the cache ("cache", with its age at
\* the read) or from the fetch of the request itself ("fetch").
KeySet(source, jwks, age) == [source |-> source, jwks |-> jwks, age |-> age]
NoKeySet == KeySet("none", {}, -1)

\* part_002 27-29: jwks.keys.find(k => k.kid === kid)
FindKey(jwks, kid) ==
    LET found == {k \in jwks : k.kid = kid} IN
    IF found = {} THEN NoVal ELSE (CHOOSE k \in found : TRUE).key

ClientInit ==
    /\ cCache = NoEntry
    /\ cNow = 0
    /\ cPc = [p \in Requests |-> "idle"]
    /\ cKid = [p \in Requests |-> "k1"]
    /\ cRead = [p \in Requests |-> "none"]
    /\ cUsed = [p \in Requests |-> NoKeySet]
    /\ cFetched = [p \in Requests |-> 0]
    /\ cGot = [p \in Requests |-> {}]
    /\ cKey = [p \in Requests |-> NoVal]
    /\ cProduced = {}

\* getSigningKey waiting for the fetch of another request instead of
\* fetching itself.
GetSigningKey_Coalesces(p, kid) ==
    /\ cPc[p] \in {"idle", "done"}
    /\ cKid' = [cKid EXCEPT ![p] = kid]
    /\ cGot' = [cGot EXCEPT ![p] = {}]
    /\ IF CacheHit(cCache, TheServer, cNow)
       THEN /\ cPc' = [cPc EXCEPT ![p] = "done"]
            /\ cRead' = [cRead EXCEPT ![p] = "fresh"]
            /\ cUsed' = [cUsed EXCEPT ![p] = KeySet("cache", cCache.jwks, cNow - cCache.fetchedAt)]
            /\ cFetched' = [cFetched EXCEPT ![p] = 0]
            /\ cKey' = [cKey EXCEPT ![p] = FindKey(cCache.jwks, kid)]
       ELSE /\ cPc' = [cPc EXCEPT ![p] =
                         IF \E q \in Requests : cPc[q] \in {"fetching", "json"}
                         THEN "waiting" ELSE "fetching"]
            /\ cRead' = [cRead EXCEPT ![p] = IF cCache.present THEN "stale" ELSE "absent"]
            /\ cUsed' = [cUsed EXCEPT ![p] = NoKeySet]
            /\ cFetched' = [cFetched EXCEPT ![p] =
                              IF \E q \in Requests : cPc[q] \in {"fetching", "json"}
                              THEN 0 ELSE 1]
            /\ cKey' = [cKey EXCEPT ![p] = NoVal]
    /\ UNCHANGED <<cCache, cNow, cProduced>>
    /\ UNCHANGED <<authzVars, authVars, srvVars, fileVars>>

\* part_002 12-25 and 37-45: getSigningKey up to its first await: the server
\* is chosen, the cache is read, and on a hit the key is looked up; on a miss
\* the fetch is issued.
GetSigningKey(p, kid) ==
    /\ cPc[p] \in {"idle", "done"}
    /\ cKid' = [cKid EXCEPT ![p] = kid]
    /\ cGot' = [cGot EXCEPT ![p] = {}]
    /\ IF CacheHit(cCache, TheServer, cNow)
       THEN /\ cPc' = [cPc EXCEPT ![p] = "done"]
            /\ cRead' = [cRead EXCEPT ![p] = "fresh"]
            /\ cUsed' = [cUsed EXCEPT ![p] = KeySet("cache", cCache.jwks, cNow - cCache.fetchedAt)]
            /\ cFetched' = [cFetched EXCEPT ![p] = 0]
            /\ cKey' = [cKey EXCEPT ![p] = FindKey(cCache.jwks, kid)]
       ELSE /\ cPc' = [cPc EXCEPT ![p] = "fetching"]
            /\ cRead' = [cRead EXCEPT ![p] = IF cCache.present THEN "stale" ELSE "absent"]
            /\ cUsed' = [cUsed EXCEPT ![p] = NoKeySet]
            /\ cFetched' = [cFetched EXCEPT ![p] = 1]
            /\ cKey' = [cKey EXCEPT ![p] = NoVal]
    /\ UNCHANGED <<cCache, cNow, cProduced>>
    /\ UNCHANGED <<authzVars, authVars, srvVars, fileVars>>

\* The answer of the endpoint making an entry without keys appear in the
\* cache before the body is read.
FetchJwksResponds_CachesEarly(p, ok) ==
    /\ cPc[p] = "fetching"
    /\ cPc' = [cPc EXCEPT ![p] = IF ok THEN "json" ELSE "done"]
    /\ cCache' = IF ok THEN Entry({}, cNow) ELSE cCache
    /\ UNCHANGED <<cNow, cKid, cRead, cUsed, cFetched, cGot, cKey, cProduced>>
    /\ UNCHANGED <<authzVars, authVars, srvVars, fileVars>>

\* part_002 45-48: the endpoint answers the fetch of a request; a
\* non-success answer throws and ends the request.
FetchJwksResponds(p, ok) ==
    /\ cPc[p] = "fetching"
    /\ cPc' = [cPc EXCEPT ![p] = IF ok THEN "json" ELSE "done"]
    /\ UNCHANGED <<cCache, cNow, cKid, cRead, cUsed, cFetched, cGot, cKey, cProduced>>
    /\ UNCHANGED <<authzVars, authVars, srvVars, fileVars>>

\* part_002 50-53 and 27-29: the body is parsed, the entry of the issuer is
\* set in one statement, and the key is looked up in the set just fetched.
FetchJwksBodyRead(p, jwks) ==
    /\ cPc[p] = "json"
    /\ cCache' = Entry(jwks, cNow)
    /\ cProduced' = cProduced \cup {jwks}
    /\ cGot' = [cGot EXCEPT ![p] = jwks]
    /\ cUsed' = [cUsed EXCEPT ![p] = KeySet("fetch", jwks, 0)]
    /\ cKey' = [cKey EXCEPT ![p] = FindKey(jwks, cKid[p])]
    /\ cPc' = [cPc EXCEPT ![p] = "done"]
    /\ UNCHANGED <<cNow, cKid, cRead, cFetched>>
    /\ UNCHANGED <<authzVars, authVars, srvVars, fileVars>>

\* Time passes.
ClientTick ==
    /\ cNow + ClockStep <= MaxNow
    /\ cNow' = cNow + ClockStep
    /\ UNCHANGED <<cCache, cPc, cKid, cRead, cUsed, cFetched, cGot, cKey, cProduced>>
    /\ UNCHANGED <<authzVars, authVars, srvVars, fileVars>>

ClientNext ==
    \/ \E p \in Requests : GetSigningKey(p, BaseToken.kid)
    \/ \E p \in Requests, ok \in BOOLEAN : FetchJwksResponds(p, ok)
    \/ \E p \in Requests, jwks \in JwksSets : FetchJwksBodyRead(p, jwks)
    \/ ClientTick

ClientIdle == ClientInit

FilesIdle ==
    /\ blobs = {} /\ isConfigured = TRUE /\ fReq = NoFReq /\ fCall = NoCall
    /\ fOut = NoOut

AuthzIdle ==
    /\ zUrl = FALSE /\ zReq = NoReq /\ zPc = "idle" /\ zTimer = FALSE
    /\ zAborted = FALSE /\ zCall = "none" /\ zStatus = 0 /\ zBody = Unparsable
    /\ zSentBody = NoDecisionBody /\ zOut = NoOut /\ zNextCalls = 0 /\ zSent = 0

AuthIdle ==
    /\ aConfig = NoConfig
    /\ aMode = "static" /\ aServers = <<>> /\ aCache = [k \in IssuerKeys |-> NoEntry]
    /\ now = 0 /\ aReq = AuthReq(NoVal, BaseToken) /\ aPc = "idle" /\ aServer = 0
    /\ aAge = -1 /\ aFetches = 0 /\ aErr = "none" /\ aOut = ANone /\ aUser = NoUser
    /\ aNextCalls = 0 /\ aSent = 0

ServerIdle ==
    /\ sAuth = "static" /\ sUrl = FALSE /\ sNow = 0 /\ sReq = NoSReq /\ sPos = 0
    /\ sUser = NoVal /\ sScope = NoVal /\ sOut = NoOut /\ sCalls = 0
    /\ sStorage = "none" /\ sSent = NoDecisionBody /\ sTrace = <<>>
    /\ uploadStore = EmptyStore
    /\ downloadStore = EmptyStore
    /\ sSeen = [c \in Classes |-> [k \in LimiterKeys |-> NoSeen]]
    /\ sExpect = "none"

\* The authorization middleware on its own.
InitAuthz == AuthzInit /\ AuthIdle /\ ServerIdle /\ FilesIdle /\ ClientIdle

SpecAuthz == InitAuthz /\ [][AuthzNext]_vars

\* The authentication middleware of a server built from a configuration,
\* with an endpoint that publishes one key set.
AuthNext ==
    \/ \E req \in AuthRequests : AuthenticateNone(req)
    \/ \E req \in AuthRequests : AuthenticateJWT(req)
    \/ \E req \in AuthRequests : AuthenticateJwks(req)
    \/ \E ok \in BOOLEAN : JwksResponds(ok)
    \/ JwksBodyRead(JwksFull)

InitAuth == ConfiguredInit /\ AuthzIdle /\ ServerIdle /\ FilesIdle /\ ClientIdle

SpecAuth == InitAuth /\ [][AuthNext]_vars

\* The key resolver behind the JWKS middleware, over time.
JwksNext ==
    \/ \E req \in JwksRequests : AuthenticateJwks(req)
    \/ \E ok \in BOOLEAN : JwksResponds(ok)
    \/ \E jwks \in JwksSets : JwksBodyRead(jwks)
    \/ Tick

InitJwks == AuthInit(ServerLists) /\ aMode = "jwks" /\ AuthzIdle /\ ServerIdle /\ FilesIdle /\ ClientIdle

SpecJwks == InitJwks /\ [][JwksNext]_vars

\* One middleware at a time, invoked over and over: the authorization
\* middleware, or the authentication middleware of a configured server.
InitMiddleware == InitAuthz \/ InitAuth

MiddlewareNext ==
    \/ aConfig = NoConfig /\ AuthzNext
    \/ aConfig # NoConfig /\ AuthNext

SpecMiddleware == InitMiddleware /\ [][MiddlewareNext]_vars

\* The middlewares with what their scheduling guarantees: a timer that is
\* armed fires. Nothing makes the oracle or the key-set endpoint answer, or
\* the body of an answer arrive.
SpecMiddlewareLive == SpecMiddleware /\ WF_vars(TimeoutFires)

\* The storage client and the route handlers.
InitFiles == FilesInit /\ AuthzIdle /\ AuthIdle /\ ServerIdle /\ ClientIdle

SpecFiles == InitFiles /\ [][FilesNext]_vars

\* One JwksClient under concurrent requests.
InitClient == ClientInit /\ AuthzIdle /\ AuthIdle /\ ServerIdle /\ FilesIdle

SpecClient == InitClient /\ [][ClientNext]_vars

\* The assembled server.
Init == ServerInit /\ AuthzIdle /\ AuthIdle /\ FilesIdle /\ ClientIdle

Spec == Init /\ [][ServerNext]_vars

(***************************************************************************)
(* Properties                                                              *)
(***************************************************************************)

\* The oracle answered with a success status and the unwrapped payload
\* has allowed = true.
OracleAllowed ==
    /\ zCall = "answered"
    /\ ResponseOk(zStatus)
    /\ zBody.parsable
    /\ (IF zBody.wrapped THEN zBody.data.allowed ELSE zBody.allowed) = "true"

C3_AllowListEnforced ==
    (aPc = "done" /\ ~BadHeader(aReq) /\ aReq.token.alg \notin {"RS256", "ES256", "HS256"})
        => (aOut.kind # "next" /\ ~aUser.present)

\* The first claim of the priority list sub, user_id, userId, id whose value
\* is neither absent nor empty.
FirstNonEmptyClaim(token) ==
    LET order == <<token.sub, token.user_id, token.userId, token.id>>
        filled == {i \in 1..4 : order[i] \notin {NoVal, ""}}
    IN  IF filled = {} THEN NoVal
        ELSE order[CHOOSE i \in filled : \A j \in filled : i <= j]

\* C4: for every token that verifies, req.user.id is the first non-empty
\* claim in the order sub, user_id, userId, id.
C4_SubjectIdPriority ==
    (aPc = "done" /\ aOut.kind = "next") =>
        (aUser.present /\ aUser.id = FirstNonEmptyClaim(aReq.token))

\* C5: the selected auth server is the one whose issuer equals the token's
\* iss whenever the list has one, else a wildcard entry, else the first.
C5_ExactIssuerFirst ==
    (aMode = "jwks" /\ aServer # 0) =>
        LET iss == aReq.token.iss
            exact == {i \in 1..Len(aServers) : aServers[i].issuer = iss}
            wild == {i \in 1..Len(aServers) : aServers[i].issuer = "*"}
        IN  IF exact # {} THEN aServer \in exact
            ELSE IF wild # {} THEN aServer \in wild
            ELSE aServer = 1

\* The cache entry read by the current request was absent or stale.
StaleOrAbsent == aAge = -1 \/ aAge >= CacheTtlMs(aServers[aServer])

\* C6: a resolve call whose cache entry is absent or stale issues exactly one
\* key-set fetch, before any key lookup; one whose entry is fresh issues none.
C6_StaleFetchesOnce ==
    (aMode = "jwks" /\ aServer # 0) =>
        /\ aFetches = (IF StaleOrAbsent THEN 1 ELSE 0)
        /\ (aPc \in {"fetching", "json"} =>
                StaleOrAbsent /\ aErr = "none" /\ aOut = ANone /\ ~aUser.present)

C6_Witness ==
    /\ aMode = "jwks" /\ aServer # 0 /\ aPc = "done"
    /\ aAge >= 1000 /\ aFetches = 1 /\ aOut.kind = "next"

\* C7: when the token's kid is not in the key set obtained for the selected
\* issuer, the request ends unauthorized with a key-not-found error, other
\* keys being cached or not, and no fetch is made beyond the one a stale or
\* absent entry causes.
C7_KeyNotFound ==
    (/\ aMode = "jwks" /\ aPc = "done" /\ aServer # 0 /\ aErr # "FetchFailed"
     /\ \A k \in aCache[aServers[aServer].issuer].jwks : k.kid # aReq.token.kid) =>
        /\ aErr = "KeyNotFound"
        /\ aOut.kind = "res" /\ aOut.status = 401
        /\ ~aUser.present
        /\ aFetches <= 1
        /\ (~StaleOrAbsent => aFetches = 0)

C7_Witness ==
    /\ aMode = "jwks" /\ aPc = "done" /\ aErr = "KeyNotFound" /\ aFetches = 0
    /\ aCache[aServers[aServer].issuer].jwks # {}

\* C8: a key-set fetch that does not succeed ends the request unauthorized
\* in the same step, with one fetch made and the cache left as it was.
C8_FetchFailurePropagates ==
    [][(aPc = "fetching" /\ aPc' \notin {"fetching", "json"}) =>
          /\ aPc' = "done"
          /\ aErr' = "FetchFailed"
          /\ aOut'.kind = "res" /\ aOut'.status = 401
          /\ ~aUser'.present
          /\ aFetches' = 1
          /\ aCache' = aCache]_vars

C8_Witness ==
    /\ aPc = "done" /\ aErr = "FetchFailed" /\ aFetches = 1
    /\ aCache[aServers[aServer].issuer].present

\* C9: a request of a class is rejected as rate-limited exactly when it is
\* beyond the threshold of its class among the requests of that class by its
\* key in the current window, the window starting anew once it has elapsed.
C9_ThresholdPerClass ==
    (sPos = 7 /\ sExpect # "none") =>
        /\ (sExpect = "admit" => ~(sOut.kind = "res" /\ sOut.status = 429))
        /\ (sExpect = "reject" => (sOut.kind = "res" /\ sOut.status = 429))

\* C10: a step of an upload request leaves the counters of the download
\* limiter as they are, and a step of a download, delete or list request
\* leaves the counters of the upload limiter as they are.
C10_ClassesIndependent ==
    [][(sPos \in 1..6 /\ sPos' # sPos) =>
          /\ (ClassOf(sReq) = "upload" => downloadStore' = downloadStore)
          /\ (ClassOf(sReq) = "download" => uploadStore' = uploadStore)]_vars

\* C11: within a window the counter of a limiter for a key never exceeds the
\* threshold of the limiter plus one: the request that is rejected first is
\* the last one counted, further rejected requests leave the counter alone.
C11_RejectedNotCounted ==
    \A k \in LimiterKeys :
        /\ uploadStore[k].hits <= rateLimitUpload + 1
        /\ downloadStore[k].hits <= rateLimitDownload + 1

\* C18: with no authorization URL configured the middleware lets every
\* request proceed with scope "user", whatever the method, the path and the
\* identity, and makes no outbound call.
C18_BypassProceeds ==
    (~zUrl /\ zPc = "done") =>
        /\ zOut = CallNext("user")
        /\ zNextCalls = 1 /\ zSent = 0
        /\ zCall = "none" /\ zSentBody = NoDecisionBody /\ ~zTimer

C18_Witness ==
    /\ ~zUrl /\ zPc = "done" /\ zReq.method = "DELETE" /\ zReq.path = <<"files", "f1">>
    /\ zReq.authorization = NoVal /\ zOut.kind = "next"

\* C19: with an oracle configured, a request that the routers serve as
\* upload, download or delete causes an oracle call for that action, and
\* every other request, list and health included, passes through with scope
\* "user" and causes no oracle call.
C19_ActionTable ==
    (zUrl /\ zPc = "done") =>
        IF Endpoint(zReq) \in {"upload", "download", "delete"}
        THEN zCall # "none" /\ zSentBody.action = Endpoint(zReq)
        ELSE zCall = "none" /\ zOut = CallNext("user") /\ zSentBody = NoDecisionBody

\* The reason the oracle supplied with its answer.
OracleReason == IF zBody.parsable THEN Unwrap(zBody).reason ELSE NoVal

\* C20: an oracle answer with status 403 becomes a 403 response that carries
\* the reason the oracle supplied, an answer with any other non-success
\* status becomes a 503 response, and in both cases next is not called.
C20_ErrorStatusMapping ==
    (zUrl /\ zPc = "done" /\ zCall = "answered" /\ ~ResponseOk(zStatus)) =>
        /\ zOut.kind = "res" /\ zNextCalls = 0 /\ zSent = 1
        /\ (zStatus = 403 =>
                /\ zOut.status = 403
                /\ (Truthy(OracleReason) => zOut.message = OracleReason))
        /\ (zStatus # 403 => zOut.status = 503)

C20_Witness ==
    /\ zUrl /\ zPc = "done" /\ zCall = "answered" /\ zStatus = 403
    /\ zBody.wrapped /\ zOut.status = 403 /\ zOut.message = "r1"

\* The request in the stack is for a per-resource path and its file id is
\* not a UUID.
MalformedFileId ==
    /\ sPos >= 1
    /\ Endpoint(sReq) \in {"download", "delete"}
    /\ ~ValidFileId(StripSlash(sReq.path)[2])

\* C16: when a request for a per-resource path with a malformed file id is
\* rejected as a bad request, neither the authorization oracle nor the
\* storage has been invoked for it.
C16_MalformedIdRejectedFirst ==
    (MalformedFileId /\ sPos = 7 /\ sOut.status = 400) =>
        (sCalls = 0 /\ sStorage = "none")

\* The positions of the trace at which one of the stages ran.
StagePositions(stages) == {i \in DOMAIN sTrace : sTrace[i] \in stages}

\* The first of a non-empty set of positions.
FirstOf(positions) == CHOOSE i \in positions : \A j \in positions : i <= j

\* C17: the stages of a request run in the order authenticate, authorize,
\* rate limit, storage: no authorization before the first authentication, no
\* rate limiting before the first authorization, and a storage operation is
\* issued last, only for a request that was authenticated, was passed by the
\* authorization gate and was admitted by the rate limiter.
C17_StageOrder ==
    LET authn == StagePositions({"authenticate"})
        authz == StagePositions({"authorize"})
        limit == StagePositions({"uploadLimiter", "downloadLimiter"})
        store == StagePositions({"storage"})
    IN  /\ (authz # {} => authn # {} /\ FirstOf(authn) < FirstOf(authz))
        /\ (limit # {} => authz # {} /\ FirstOf(authz) < FirstOf(limit))
        /\ (store # {} <=> sStorage # "none")
        /\ (sStorage # "none" =>
                /\ store = {Len(sTrace)}
                /\ limit # {}
                /\ sUser # NoVal /\ sScope # NoVal
                /\ sOut.kind = "res" /\ sOut.status = 200)

C17_Witness ==
    /\ sPos = 7 /\ sUrl /\ sStorage = "delete" /\ sCalls >= 1 /\ sScope = "tenant"

\* The prefix of a scope: tenantId/shared/ (shared/ without a tenant) for
\* "tenant", tenantId/subjectId/ (subjectId/ without a tenant) for "user".
PrefixOfScope(scope, tenantId, userId) ==
    IF scope = "tenant"
    THEN (IF tenantId = NoVal THEN <<"shared">> ELSE <<tenantId, "shared">>)
    ELSE (IF tenantId = NoVal THEN <<userId>> ELSE <<tenantId, userId>>)

\* A route handler has made its storage call with a prefix.
HandlerCalledStorage == fReq.via = "route" /\ fCall.prefix # <<>>

\* C12: the storage call of the upload, download and delete handlers uses the
\* prefix of the scope that the authorization set on the request: the
\* tenant-shared prefix for "tenant", the caller's user prefix for "user".
C12_ScopeDecidesPrefix ==
    (/\ HandlerCalledStorage
     /\ fReq.op \in {"upload", "download", "delete"}
     /\ fReq.scope \in {"user", "tenant"}) =>
        fCall.prefix = PrefixOfScope(fReq.scope, fReq.tenant, fReq.user)

\* C13: whichever of upload, download, list and delete is called, the prefix
\* it builds for scope "tenant" or "user" is the prefix of that scope.
C13_PrefixByScope ==
    (fCall.prefix # <<>> /\ fCall.scope \in {"user", "tenant"}) =>
        fCall.prefix = PrefixOfScope(fCall.scope, fReq.tenant, fReq.user)

C13_Witness ==
    /\ fReq.op = "delete" /\ fReq.tenant = NoVal /\ fCall.scope = "tenant"
    /\ fCall.prefix = <<"shared">> /\ fCall.err = "none" /\ fCall.found # NoBlob

\* C14: when download or delete has matched a blob, the call fails as
\* unauthorized, leaving the blob in place, whenever the scope is "user" and
\* the owner of the blob is not the caller, and it succeeds whoever the
\* owner is when the scope is "tenant".
C14_OwnershipCheck ==
    (fReq.op \in {"download", "delete"} /\ fCall.found # NoBlob) =>
        /\ (fCall.scope = "user" /\ fCall.found.user_id # fReq.user =>
                /\ fCall.err = "Unauthorized: File belongs to different user"
                /\ fCall.found \in blobs)
        /\ (fCall.scope = "tenant" => fCall.err = "none")

C14_Witness ==
    /\ fReq.op = "download" /\ fCall.scope = "user" /\ fCall.found # NoBlob
    /\ fCall.found.user_id # fReq.user
    /\ fCall.err = "Unauthorized: File belongs to different user"

\* C15: a download or delete request with scope "user" for the id of a file
\* that is stored and owned by another subject is answered as forbidden, not
\* as not found, and the file stays stored.
C15_ForeignFileForbidden ==
    (/\ fReq.via = "route" /\ fReq.op \in {"download", "delete"}
     /\ isConfigured /\ fCall.scope = "user"
     /\ \E b \in blobs : b.file_id = fReq.id /\ b.user_id # fReq.user) =>
        fOut.status = 403

\* The token of the request passed the verification of its signature,
\* algorithm and expiry.
TokenVerified == aPc = "done" /\ aErr \in {"none", "MissingUserId"}

\* C21: a token that verifies but has no non-empty claim among sub, user_id,
\* userId and id ends the request unauthorized: no identity is attached and
\* next is not called.
C21_MissingSubjectRejected ==
    (TokenVerified /\ FirstNonEmptyClaim(aReq.token) = NoVal) =>
        /\ aOut = Unauthorized("Token missing user identifier")
        /\ ~aUser.present

C21_Witness ==
    /\ aMode = "jwks" /\ TokenVerified /\ aReq.token.id = "" /\ aReq.token.sub = NoVal
    /\ aOut.status = 401

\* C22: a request whose Authorization header is absent or does not begin
\* with "Bearer ", in this very case, ends unauthorized at once: no token is
\* decoded, no server is selected, no key set is read or fetched, and next is
\* not called.
C22_BadHeaderRejectedFirst ==
    (aMode \in {"static", "jwks"} /\ aPc # "idle" /\ aReq.scheme # "Bearer ") =>
        /\ aPc = "done"
        /\ aOut = Unauthorized("Missing or invalid authorization header")
        /\ ~aUser.present
        /\ aServer = 0 /\ aAge = -1 /\ aFetches = 0

C22_Witness ==
    /\ aMode = "jwks" /\ aPc = "done" /\ aReq.scheme = "bearer " /\ aOut.status = 401

\* C23: an expired token and a token whose signature is invalid are answered
\* with different messages, and every failure of verification or of key
\* resolution is answered 401.
C23_FailuresUnauthorized ==
    (aMode \in {"static", "jwks"} /\ aPc = "done") =>
        /\ (aOut.kind = "res" => aOut.status = 401)
        /\ (aErr # "none" => aOut.kind = "res" /\ ~aUser.present)
        /\ (aErr = "TokenExpiredError" =>
                aReq.token.expired /\ aOut.message = "Token expired")
        /\ (aErr = "JsonWebTokenError" =>
                aOut.message = "Invalid token" /\ aOut.message # "Token expired")

C23_Witness ==
    /\ aMode = "jwks" /\ aPc = "done" /\ aErr = "TokenExpiredError"
    /\ aOut.message = "Token expired"

\* C24: in static-key mode no key set is fetched and the key cache is never
\* written, whatever the tokens and however many the requests.
C24_StaticNeverFetches ==
    aMode = "static" =>
        /\ aFetches = 0
        /\ aPc \in {"idle", "done"}
        /\ aServer = 0
        /\ \A k \in IssuerKeys : aCache[k] = NoEntry

C24_Witness ==
    /\ aMode = "static" /\ aPc = "done" /\ aOut.kind = "next" /\ aUser.present

\* The first claim of the priority list tenant_id, tid, tenant_uuid whose
\* value is neither absent nor empty.
FirstNonEmptyTenant(token) ==
    LET order == <<token.tenant_id, token.tid, token.tenant_uuid>>
        filled == {i \in 1..3 : order[i] \notin {NoVal, ""}}
    IN  IF filled = {} THEN NoVal
        ELSE order[CHOOSE i \in filled : \A j \in filled : i <= j]

\* C30: for every token that verifies, req.user.tenantId is the first
\* non-empty claim in the order tenant_id, tid, tenant_uuid and is absent
\* when there is none, whatever other claims the token carries.
C30_TenantIdPriority ==
    (aPc = "done" /\ aOut.kind = "next") =>
        (aUser.present /\ aUser.tenantId = FirstNonEmptyTenant(aReq.token))

C25_HealthOpen ==
    (sPos >= 2 /\ sReq.method = "GET" /\ sReq.path = <<"health">>) =>
        /\ sPos = 7
        /\ sOut = Respond(200, "healthy")
        /\ sTrace = <<>>
        /\ sCalls = 0 /\ sStorage = "none" /\ sUser = NoVal

C25_Witness ==
    /\ sPos = 7 /\ sReq.method = "GET" /\ sReq.path = <<"health">>
    /\ sReq.scheme = NoVal /\ sAuth = "none" /\ sUrl
    /\ sOut.status = 200

\* C27: the decision request sent for a download or a delete carries the
\* action and, as file_id, the id segment of the request path.
C27_DecisionCarriesFileId ==
    (sCalls > 0 /\ sSent.action \in {"download", "delete"}) =>
        sSent.file_id = StripSlash(sReq.path)[2]

\* C28: the scope the authorization middleware attaches to a request is
\* "user" or "tenant", whatever the oracle answered.
C28_ScopeUserOrTenant ==
    zOut.kind = "next" => zOut.scope \in {"user", "tenant"}

\* C29: for a success answer of the oracle with a parsable body, allowed,
\* scope and reason are those of the data field when the body has one, also
\* when the top level carries fields of the same names, and those of the top
\* level otherwise.
C29_WrappedShapeFirst ==
    (zUrl /\ zPc = "done" /\ zCall = "answered" /\ ResponseOk(zStatus) /\ zBody.parsable) =>
        LET allowed == IF zBody.wrapped THEN zBody.data.allowed ELSE zBody.allowed
            scope == IF zBody.wrapped THEN zBody.data.scope ELSE zBody.scope
            reason == IF zBody.wrapped THEN zBody.data.reason ELSE zBody.reason
        IN  IF allowed \in {"true"}
            THEN zOut.kind = "next" /\ zOut.scope = (IF scope = NoVal THEN "user" ELSE scope)
            ELSE /\ zOut.kind = "res" /\ zOut.status = 403
                 /\ zOut.message = (IF reason = NoVal THEN "Access denied" ELSE reason)

C29_Witness ==
    /\ zUrl /\ zPc = "done" /\ zCall = "answered" /\ ResponseOk(zStatus)
    /\ zBody.wrapped /\ zBody.allowed = "true" /\ zBody.data.allowed = "false"
    /\ zOut.status = 403 /\ zOut.message = "r1"

\* C33: with an empty list of auth servers, the key resolution for a token
\* fails with the error of a server not configured, whatever the token's
\* issuer and key id, and no key set is fetched or cached.
C33_EmptyServersNotConfigured ==
    (aMode = "jwks" /\ aServers = <<>> /\ aPc # "idle"
        /\ aReq.scheme = "Bearer " /\ aReq.token.decodable) =>
        /\ aPc = "done"
        /\ aErr = "NoServer"
        /\ aOut.kind = "res" /\ aOut.status = 401 /\ ~aUser.present
        /\ aFetches = 0
        /\ \A k \in IssuerKeys : aCache[k] = NoEntry

C33_Witness ==
    /\ aMode = "jwks" /\ aServers = <<>> /\ aPc = "done" /\ aErr = "NoServer"
    /\ aReq.token.iss = "B" /\ aReq.token.kid = "k1" /\ aFetches = 0

\* The positions of the trace at which a rate limiter counted the request.
LimiterRuns == {i \in DOMAIN sTrace : sTrace[i] \in {"uploadLimiter", "downloadLimiter"}}

\* C34: for one request the oracle is called at most once and at most one
\* limiter counts it, once, whichever route handles it in the end.
C34_OnceEach ==
    sCalls <= 1 /\ Cardinality(LimiterRuns) <= 1

\* C39: a request answered 401 or 403 has been counted by no rate limiter,
\* and no counter is kept under the network address of a caller.
C39_RejectedNotCountedNoAddressKey ==
    /\ (sPos = 7 /\ sOut.kind = "res" /\ sOut.status \in {401, 403}) => LimiterRuns = {}
    /\ uploadStore["ip1"].hits = 0 /\ downloadStore["ip1"].hits = 0

\* C37: an invocation of the authentication middleware or of the
\* authorization middleware that has ended has either sent one response or
\* called next once, never both and never neither, and before it ends it
\* has done neither.
C37_OneOutcome ==
    /\ aNextCalls + aSent <= 1
    /\ zNextCalls + zSent <= 1
    /\ (aPc = "done" => aNextCalls + aSent = 1 /\ (aNextCalls = 1 <=> aOut.kind = "next"))
    /\ (zPc = "done" => zNextCalls + zSent = 1 /\ (zNextCalls = 1 <=> zOut.kind = "next"))
    /\ (aPc \in {"fetching", "json"} => aNextCalls + aSent = 0)
    /\ (zPc \notin {"idle", "done"} => zNextCalls + zSent = 0)

C37_Witness ==
    /\ zPc = "done" /\ zCall = "failed" /\ zAborted /\ ~zTimer
    /\ zSent = 1 /\ zNextCalls = 0

\* C36: every invocation of a middleware that waits for the oracle or for the
\* key-set endpoint, or for the body of their answer, comes to its end (a
\* response or next), also when the answer or the body never comes.
C36_EveryRequestAnswered ==
    /\ (zPc \in {"fetching", "okjson", "errjson"}) ~> (zPc = "done")
    /\ (aPc \in {"fetching", "json"}) ~> (aPc = "done")

\* The part of C36 that the abort timer covers: an oracle that sends no
\* answer at all.
OracleSilenceAnswered == (zPc = "fetching") ~> (zPc \in {"okjson", "errjson", "done"})

\* The blob was uploaded by the identity of the call.
UploadedByCaller(b) == b.user_id = fReq.user /\ b.tenant_id = Or(fReq.tenant, "")

\* C35: what a list, download or delete of scope "user" returns, streams or
\* removes was uploaded by the identity that calls: the same subject id and
\* the same tenant id.
C35_UserNamespacesIsolated ==
    (fReq.op \in {"list", "download", "delete"} /\ fCall.scope = "user" /\ fCall.err = "none") =>
        /\ \A b \in blobs : b.file_id \in fCall.files => UploadedByCaller(b)
        /\ (fCall.found # NoBlob => UploadedByCaller(fCall.found))

\* The blobs of the container with the file id.
Stored(container, fileId) == {b \in container : b.file_id = fileId}

\* C38: a download or delete of a file id by the identity that uploaded the
\* file, under the scope of the upload, succeeds on that file as long as it
\* is stored; a successful delete leaves no blob of the file id; and once no
\* blob of a file id is stored, a download or delete of it yields not found
\* and no list contains it.
C38_UploadRoundTrip ==
    [][LET req == fReq'
           call == fCall'
           mine == {b \in Stored(blobs, req.id) :
                       /\ b.user_id = req.user /\ b.tenant_id = Or(req.tenant, "")
                       /\ b.scope = call.scope}
       IN  (isConfigured /\ call.scope # NoVal) =>
               /\ (req.op \in {"download", "delete"} /\ mine # {} =>
                       call.err = "none" /\ call.found \in mine)
               /\ (req.op = "delete" /\ call.err = "none" => Stored(blobs', req.id) = {})
               /\ (req.op \in {"download", "delete"} /\ Stored(blobs, req.id) = {} =>
                       call.err = "File not found" /\ blobs' = blobs)
               /\ (req.op = "list" =>
                       \A id \in call.files : Stored(blobs, id) # {})]_vars

C38_Witness ==
    /\ fReq.via = "direct" /\ fReq.op = "delete" /\ fCall.scope = "tenant"
    /\ fCall.err = "none" /\ fCall.found.file_id = fReq.id
    /\ fCall.found.user_id = fReq.user
    /\ Stored(blobs, fReq.id) = {} /\ blobs # {}

\* The key set of the lookup of request p is a whole key set that one fetch
\* produced: a cached one that was fresh when p read it, or the one p fetched.
UsesWholeKeySet(p) ==
    cUsed[p].source # "none" =>
        /\ cUsed[p].jwks \in cProduced
        /\ cKey[p] = FindKey(cUsed[p].jwks, cKid[p])
        /\ (cUsed[p].source = "cache" =>
                /\ cRead[p] = "fresh" /\ cFetched[p] = 0
                /\ cUsed[p].age >= 0 /\ cUsed[p].age < 1000 * TheServer.cacheTtl)
        /\ (cUsed[p].source = "fetch" =>
                /\ cRead[p] \in {"absent", "stale"} /\ cFetched[p] = 1
                /\ cUsed[p].jwks = cGot[p])

\* C31: under every interleaving of the requests, the key set of a key
\* lookup is a whole key set of one successful fetch, cached and fresh at the
\* read or fetched by the request itself; a stale or partly written entry is
\* never used, and the cache changes only when a request that missed it
\* stores the key set it fetched.
C31_WholeFreshKeySets ==
    [][/\ \A p \in Requests : UsesWholeKeySet(p)'
       /\ (cCache'.present => cCache'.jwks \in cProduced')
       /\ (cCache' # cCache =>
               \E p \in Requests :
                   /\ cPc[p] = "json" /\ cPc'[p] = "done" /\ cFetched[p] = 1
                   /\ cCache' = Entry(cGot'[p], cNow))]_vars

C31_Witness ==
    /\ cUsed[1].source = "fetch" /\ cRead[1] = "stale"
    /\ cUsed[2].source = "cache" /\ cUsed[2].age > 0
    /\ cUsed[1].jwks # cUsed[2].jwks

\* C32: every request that finds the entry of the issuer absent or stale
\* issues a fetch of its own, whatever the other requests are doing, and
\* when all requests have ended after a successful fetch the cache holds for
\* the issuer one entry, with the key set of one of the fetches.
C32_IndependentFetches ==
    /\ \A p \in Requests :
          cRead[p] \in {"absent", "stale"} =>
              cFetched[p] = 1 /\ cPc[p] \in {"fetching", "json", "done"}
    /\ ((\A p \in Requests : cPc[p] = "done") /\ cProduced # {}) =>
          /\ cCache.present
          /\ cCache.jwks \in cProduced
          /\ (\A p \in Requests : cUsed[p].source = "fetch") =>
                 \E p \in Requests : cCache.jwks = cGot[p]

C32_Witness ==
    /\ \A p \in Requests : cPc[p] = "done" /\ cRead[p] = "absent" /\ cFetched[p] = 1
    /\ cGot[1] # {} /\ cGot[2] # {} /\ cGot[1] # cGot[2]
    /\ cCache.present /\ cCache.jwks = cGot[1]

====
